---------------------------- MODULE Spec2Model ----------------------------
(***************************************************************************)
(* A model of parts of HiPACE++: the particle boundary functor EnforceBC,  *)
(* the named field component registry (assert_map / Comps), the slice      *)
(* buffers of Fields, and the slice loop of the driver.                    *)
(*                                                                         *)
(* Real numbers (positions, momenta, weights, field values) are taken on   *)
(* an integer grid; every operation of the code used here (comparison,     *)
(* addition, subtraction, negation, fmod) is exact on that grid.           *)
(***************************************************************************)
EXTENDS Integers, Sequences, FiniteSets, TLC

VARIABLES
    m_boundary_particles, \* Hipace::m_boundary_particles
    m_plo,                \* EnforceBC::m_plo, [0..1 -> Int]
    m_phi,                \* EnforceBC::m_phi, [0..1 -> Int]
    ptd,                  \* particle tile data: slot -> [x, y, ux, uy, w, id]
    call,                 \* the last call of EnforceBC::operator(): arguments and results
    depos,                \* weight each slot contributed to the last deposition
    Comps,                \* Comps: slice role -> assert_map (name -> index)
    N_Comps,              \* N_Comps: number of fields in each slice
    emplaced,             \* every emplace of multi_emplace so far: <<role, name, n>>
    looked,               \* the last call of assert_map::operator[]
    ErrorStream,          \* what amrex::ErrorStream() has received
    aborted,              \* an AMREX_ALWAYS_ASSERT has failed: the run is over
    m_slices,             \* Fields::m_slices: level -> cell -> component -> value
    fop,                  \* the last operation on the slices
    trip,                 \* a ShiftSlices and the opposite shift after it
    config,               \* Hipace: m_explicit, m_max_step and the predcorr parameters
    step,                 \* Evolve: the current time step
    islice,               \* Evolve: the slice being computed
    phase,                \* where Evolve / SolveOneSlice stands
    i_iter,               \* iterations of the predictor corrector loop so far
    relative_Bfield_error,  \* the error of the last iteration
    errs,                 \* the errors of the iterations of this loop, in order
    m_predcorr_avg_iterations,  \* running average: [sum, n]
    m_predcorr_avg_B_error,     \* running average: [sum, n]
    started,              \* slices of this step SolveOneSlice was called with
    shifted,              \* slices of this step whose buffers were shifted
    rank_phase,           \* per rank: where it stands with its current slice
    rank_slice,           \* per rank: the slice it is at
    held,                 \* per rank: the slice state it works on
    chan,                 \* per rank: the slice states handed to it, oldest first
    produced,             \* per rank: the slices it has finished, in order
    consumed,             \* per rank: the slices it has taken over, in order
    inputs,               \* the ParmParse tables read from the input file
    pcall,                \* the last call of a ...WithParser function
    recursive_symbols,    \* static std::set<std::string> of fillWithParser
    m_use_density_table,  \* if a density value table was specified
    m_density_table,      \* position -> density function string
    m_density_func,       \* the density function in effect
    pos_z,                 \* the position of the last UpdateDensityFunction
    dt,                   \* per rank: the time step of the driver
    m_dt_max,             \* AdaptiveTimeStep::m_dt_max
    handed,               \* per rank: the time step was computed or received
    tcall,                 \* the last call of AdaptiveTimeStep
    salame,               \* the SALAME configuration of Hipace
    sphase,               \* position of the SALAME code in the slice
    salame_slice,         \* the slice SALAME works on
    salame_iter,          \* iterations made on this slice
    salame_errs,          \* relative error of Ez after each iteration
    m_salame_overloaded,   \* Hipace::m_salame_overloaded
    fft_lib,              \* the vendor FFT library: none, setup, cleanup
    fft_size,             \* the transverse size of the laser slice
    plans                 \* per AnyFFT object: its m_plan and its use

pvars == <<m_boundary_particles, m_plo, m_phi, ptd, call, depos>>
cvars == <<Comps, N_Comps, emplaced, looked, ErrorStream, aborted>>

fvars == <<m_slices, fop, trip>>

dvars == <<config, step, islice, phase, i_iter, relative_Bfield_error, errs,
           m_predcorr_avg_iterations, m_predcorr_avg_B_error, started, shifted>>

mvars == <<rank_phase, rank_slice, held, chan, produced, consumed>>

avars == <<inputs, pcall, recursive_symbols>>

nvars == <<m_use_density_table, m_density_table, m_density_func, pos_z>>

tvars == <<dt, m_dt_max, handed, tcall>>

svars == <<salame, sphase, salame_slice, salame_iter, salame_errs, m_salame_overloaded>>

xvars == <<fft_lib, fft_size, plans>>

\* the groups added after the first ones
rest == <<avars, nvars, tvars, svars, xvars>>

vars == <<pvars, cvars, fvars, dvars, mvars, rest>>

\* the variables a subsystem leaves alone
notp == <<cvars, fvars, dvars, mvars, rest>>
notc == <<pvars, fvars, dvars, mvars, rest>>
notf == <<pvars, dvars, mvars, rest>>
notd == <<pvars, cvars, fvars, mvars, rest>>
notm == <<pvars, cvars, fvars, dvars, rest>>
nota == <<pvars, fvars, dvars, mvars, nvars, tvars, svars, xvars>>
notn == <<pvars, cvars, fvars, dvars, mvars, avars, tvars, svars, xvars>>
nott == <<pvars, cvars, fvars, dvars, mvars, avars, nvars, svars, xvars>>
nots == <<pvars, cvars, fvars, dvars, mvars, avars, nvars, tvars, xvars>>
notx == <<pvars, cvars, fvars, dvars, mvars, avars, nvars, tvars, svars>>

-----------------------------------------------------------------------------
(* Bounds *)

\* how far beyond one domain length a pushed particle may land
MaxOver == 1
\* largest initial particle weight
MaxWeight == 2
\* particles in the tile whose life cycle is followed
NPart == 2
\* largest value of the component counter N_Comps
MaxComps == 2
\* the counter of the components stays within 0..MaxIndex
MaxIndex == 3
\* mesh refinement levels
NLev == 2
\* cells of a slice
NCell == 2
\* slices of the longitudinal domain
NSlice == 3
\* largest configured m_predcorr_max_iterations
MaxIter == 2
\* largest relative B field error, on the grid of errors
MaxErr == 2
\* ranks of the pipeline
NRank == 3
\* width of int, in bits
IntBits == 4
\* std::numeric_limits<float>::max() on the grid of doubles
FloatMax == 6
\* size of the std::array read from the input
ArraySize == 2
\* largest position of the density table
MaxPos == 4
\* largest time step, on the grid of time steps
MaxDt == 4
\* largest number of transforms made with one plan
MaxExec == 3
\* largest number of pieces of a string parameter
MaxPieces == 3

-----------------------------------------------------------------------------
(* ParticleBoundary::type *)

Reflecting == "Reflecting"
Periodic == "Periodic"
Absorbing == "Absorbing"
ParticleBoundary == {Reflecting, Periodic, Absorbing}

(* amrex particle id: the sign carries validity *)
is_valid(id) == id > 0

make_invalid_toggle(id) == -id

make_invalid(id) == IF id > 0 THEN -id ELSE id

(* std::fmod for a positive divisor: truncated, the sign of the dividend *)
fmod(a, b) == IF a >= 0 THEN a % b ELSE -((-a) % b)

(* The Reflecting branch on one axis: position v, momentum u *)
ReflectingBranch_noflip(v, u, lo, hi) ==
    LET len == hi - lo
        f == fmod(v - lo, 2 * len)
        g == IF f < 0 THEN f + 2 * len ELSE f
        h == g + lo
    IN  IF h > hi THEN [pos |-> 2 * hi - h, mom |-> u]
                  ELSE [pos |-> h, mom |-> u]

ReflectingBranch(v, u, lo, hi) ==
    LET len == hi - lo
        f == fmod(v - lo, 2 * len)
        g == IF f < 0 THEN f + 2 * len ELSE f
        h == g + lo
    IN  IF h > hi THEN [pos |-> 2 * hi - h, mom |-> -u]
                  ELSE [pos |-> h, mom |-> u]

(* The Periodic branch on one axis *)
PeriodicBranch_nowrapup(v, lo, hi) ==
    LET len == hi - lo
        f == fmod(v - lo, len)
    IN  f + lo

PeriodicBranch(v, lo, hi) ==
    LET len == hi - lo
        f == fmod(v - lo, len)
        g == IF f < 0 THEN f + len ELSE f
    IN  g + lo

(* The Absorbing branch: the weight and the id of the stored particle *)
AbsorbingBranch_keepweight(p) == [w |-> p.w, id |-> make_invalid(p.id)]

AbsorbingBranch(p) == [w |-> 0, id |-> make_invalid(p.id)]

(* EnforceBC::operator(): p is the stored particle (ptd at ip), x, y, ux, uy
   are the caller's references. The result holds the new values of the
   references, of the stored weight and id, and the returned flag. *)
EnforceBC(bc, plo, phi, p, x, y, ux, uy) ==
    IF x < plo[0] \/ y < plo[1] \/ x > phi[0] \/ y > phi[1]
    THEN IF bc = Reflecting
         THEN LET rx == ReflectingBranch(x, ux, plo[0], phi[0])
                  ry == ReflectingBranch(y, uy, plo[1], phi[1])
              IN  [x |-> rx.pos, y |-> ry.pos, ux |-> rx.mom, uy |-> ry.mom,
                   w |-> p.w, id |-> p.id, invalid |-> FALSE]
         ELSE IF bc = Periodic
         THEN [x |-> PeriodicBranch(x, plo[0], phi[0]),
               y |-> PeriodicBranch(y, plo[1], phi[1]),
               ux |-> ux, uy |-> uy,
               w |-> p.w, id |-> p.id, invalid |-> FALSE]
         ELSE LET a == AbsorbingBranch(p)
              IN  [x |-> x, y |-> y, ux |-> ux, uy |-> uy,
                   w |-> a.w, id |-> a.id, invalid |-> TRUE]
    ELSE [x |-> x, y |-> y, ux |-> ux, uy |-> uy,
          w |-> p.w, id |-> p.id, invalid |-> FALSE]

-----------------------------------------------------------------------------
(* WhichSlice and the registry of named field components *)

WhichSlice == [Next |-> 0, This |-> 1, Previous |-> 2, RhomJzIons |-> 3,
               Salame |-> 4, PCIter |-> 5, PCPrevIter |-> 6, N |-> 7]
Roles == 0..(WhichSlice.N - 1)

\* component names used by the model
Names == {"Bx", "By"}

(* std::map as a function from the keys present to their values *)
EmptyMap == [k \in {} |-> 0]
count(map, str) == IF str \in DOMAIN map THEN 1 ELSE 0
at(map, str) == map[str]
\* std::map::insert_or_assign: an existing key takes the new value
emplace_assign(map, key, val) ==
    [k \in DOMAIN map \cup {key} |-> IF k = key THEN val ELSE map[k]]
\* std::map::emplace: an existing key keeps its value
emplace(map, key, val) ==
    IF key \in DOMAIN map THEN map
    ELSE [k \in DOMAIN map \cup {key} |-> IF k = key THEN val ELSE map[k]]

(* assert_map::multi_emplace(n, comps...): emplace(comps, n++) for each
   argument in order; the result is the new map and the new n *)
RECURSIVE multi_emplace(_, _, _)
multi_emplace(map, n, comps) ==
    IF comps = << >> THEN [map |-> map, n |-> n]
    ELSE multi_emplace(emplace(map, Head(comps), n), n + 1, Tail(comps))

(* assert_map::operator[]: for a missing key the name and the list of all
   names and indices go to the error stream and the assertion fails *)
assert_map_index_default(map, str) ==
    IF count(map, str) = 0
    THEN [ok |-> TRUE, idx |-> 0, err |-> << >>]
    ELSE [ok |-> TRUE, idx |-> at(map, str), err |-> << >>]

assert_map_index(map, str) ==
    IF count(map, str) = 0
    THEN [ok |-> FALSE, idx |-> 0,
          err |-> <<[missing |-> str,
                     allocated |-> {<<k, map[k]>> : k \in DOMAIN map}]>>]
    ELSE [ok |-> TRUE, idx |-> at(map, str), err |-> << >>]

NoLook == [made |-> FALSE, role |-> 0, name |-> "", ok |-> FALSE, idx |-> 0]

\* the registry before any component is registered
IdleC ==
    /\ Comps = [r \in Roles |-> EmptyMap]
    /\ N_Comps = 0
    /\ emplaced = << >>
    /\ looked = NoLook
    /\ ErrorStream = << >>
    /\ aborted = FALSE

NoOp == [op |-> "none", lev |-> 0]
NoTrip == [stage |-> 0, lev |-> 0, before |-> << >>]

\* no slice allocated
IdleF ==
    /\ m_slices = << >>
    /\ fop = NoOp
    /\ trip = NoTrip

NoAvg == [sum |-> 0, n |-> 0]

\* Evolve has not been called
IdleD ==
    /\ config = [m_explicit |-> TRUE, m_max_step |-> 0,
                 m_predcorr_max_iterations |-> 1, m_predcorr_B_error_tolerance |-> 1]
    /\ step = 0
    /\ islice = 0
    /\ phase = "done"
    /\ i_iter = 0
    /\ relative_Bfield_error = 0
    /\ errs = << >>
    /\ m_predcorr_avg_iterations = NoAvg
    /\ m_predcorr_avg_B_error = NoAvg
    /\ started = << >>
    /\ shifted = << >>

\* a single rank and nothing to hand off
IdleM ==
    /\ rank_phase = << >>
    /\ rank_slice = << >>
    /\ held = << >>
    /\ chan = << >>
    /\ produced = << >>
    /\ consumed = << >>

\* no input read
IdleA ==
    /\ inputs = << >>
    /\ pcall = << >>
    /\ recursive_symbols = {}

\* no density table
IdleN ==
    /\ m_use_density_table = FALSE
    /\ m_density_table = << >>
    /\ m_density_func = << >>
    /\ pos_z = 0

\* no adaptive time step
IdleT ==
    /\ dt = << >>
    /\ m_dt_max = 0
    /\ handed = << >>
    /\ tcall = << >>

\* no SALAME
IdleS ==
    /\ salame = << >>
    /\ sphase = "off"
    /\ salame_slice = 0
    /\ salame_iter = 0
    /\ salame_errs = << >>
    /\ m_salame_overloaded = FALSE

\* no FFT
IdleX ==
    /\ fft_lib = "none"
    /\ fft_size = << >>
    /\ plans = << >>

IdleRest == IdleA /\ IdleN /\ IdleT /\ IdleS /\ IdleX

-----------------------------------------------------------------------------
(* The functor applied to one particle of a tile *)

\* the transverse box of the particle boundary
BoxLo == [d \in {0, 1} |-> IF d = 0 THEN 0 ELSE -1]
BoxHi == [d \in {0, 1} |-> IF d = 0 THEN 2 ELSE 1]

\* positions the pusher can hand to the functor on axis d
PushRange(d) ==
    LET len == m_phi[d] - m_plo[d]
    IN  (m_plo[d] - len - MaxOver) .. (m_phi[d] + len + MaxOver)

\* momenta <<ux, uy>> the pusher can hand to the functor
Momenta == {<<-1, 2>>, <<2, -1>>}

NoCall == [made |-> FALSE, ip |-> 0, x |-> 0, y |-> 0, ux |-> 0, uy |-> 0,
           w |-> 0, id |-> 0,
           ox |-> 0, oy |-> 0, oux |-> 0, ouy |-> 0, invalid |-> FALSE]

NoDepos == [made |-> FALSE, rho |-> << >>]

\* no particle tile in use
IdleP ==
    /\ m_boundary_particles = Absorbing
    /\ m_plo = BoxLo
    /\ m_phi = BoxHi
    /\ ptd = << >>
    /\ call = NoCall
    /\ depos = NoDepos

InitBC ==
    /\ IdleC /\ IdleF /\ IdleD /\ IdleM /\ IdleRest
    /\ m_boundary_particles \in ParticleBoundary
    /\ m_plo = BoxLo
    /\ m_phi = BoxHi
    /\ \E w \in 1..MaxWeight :
          ptd = [ip \in {0} |-> [x |-> m_plo[0], y |-> m_plo[1],
                                 ux |-> 2, uy |-> -1, w |-> w, id |-> 1]]
    /\ call = NoCall
    /\ depos = NoDepos

(* A kernel hands the pushed position and momentum of particle ip to the
   functor; the functor updates them and the stored weight and id. *)
EnforceBCCall(ip, x, y, ux, uy) ==
    LET r == EnforceBC(m_boundary_particles, m_plo, m_phi, ptd[ip], x, y, ux, uy)
    IN  /\ ptd' = [ptd EXCEPT ![ip] = [@ EXCEPT !.w = r.w, !.id = r.id]]
        /\ call' = [made |-> TRUE, ip |-> ip, x |-> x, y |-> y, ux |-> ux, uy |-> uy,
                    w |-> ptd[ip].w, id |-> ptd[ip].id,
                    ox |-> r.x, oy |-> r.y, oux |-> r.ux, ouy |-> r.uy,
                    invalid |-> r.invalid]
        /\ depos' = NoDepos
        /\ UNCHANGED <<notp, m_boundary_particles, m_plo, m_phi>>

(* Deposition: every particle contributes in proportion to its weight *)
Deposit ==
    /\ depos' = [made |-> TRUE, rho |-> [ip \in DOMAIN ptd |-> ptd[ip].w]]
    /\ UNCHANGED <<notp, m_boundary_particles, m_plo, m_phi, ptd, call>>

NextBC ==
    \/ \E ip \in DOMAIN ptd : \E x \in PushRange(0), y \in PushRange(1) :
          \E u \in Momenta : EnforceBCCall(ip, x, y, u[1], u[2])
    \/ Deposit

SpecBC == InitBC /\ [][NextBC]_vars

-----------------------------------------------------------------------------
(* Properties of EnforceBC *)

InBox(v, d) == m_plo[d] <= v /\ v <= m_phi[d]
Crossed(v, d) == ~InBox(v, d)
OutOfBox(x, y) == Crossed(x, 0) \/ Crossed(y, 1)
Length(d) == m_phi[d] - m_plo[d]
\* distance by which v lies beyond the boundary it crossed
Overshoot(v, d) == IF v > m_phi[d] THEN v - m_phi[d] ELSE m_plo[d] - v
\* mirror image of v about the boundary it crossed
Mirror(v, d) == IF v > m_phi[d] THEN 2 * m_phi[d] - v ELSE 2 * m_plo[d] - v
Untouched == ptd[call.ip].w = call.w /\ ptd[call.ip].id = call.id

\* C1: under Absorbing, a call with x or y outside [lo, hi] on at least one
\* axis zeroes the weight, invalidates the id and returns true, and a later
\* deposition receives no weight from that particle.
C1_AbsorbingInvalidates ==
    (call.made /\ m_boundary_particles = Absorbing /\ OutOfBox(call.x, call.y)) =>
        /\ call.invalid
        /\ ptd[call.ip].w = 0
        /\ ~is_valid(ptd[call.ip].id)
        /\ (depos.made => depos.rho[call.ip] = 0)

C1_Witness ==
    /\ call.made /\ m_boundary_particles = Absorbing
    /\ InBox(call.x, 0) /\ Crossed(call.y, 1)
    /\ call.w > 0 /\ is_valid(call.id)
    /\ depos.made

\* C2 as stated: under Reflecting, on every crossed axis the new position is
\* inside [lo, hi] and is the mirror image about the crossed boundary, the
\* momentum of that axis is negated, and the particle stays valid.
C2_MirrorEveryCrossing ==
    (call.made /\ m_boundary_particles = Reflecting) =>
        /\ Crossed(call.x, 0) =>
              /\ InBox(call.ox, 0)
              /\ call.ox = Mirror(call.x, 0)
              /\ call.oux = -call.ux
        /\ Crossed(call.y, 1) =>
              /\ InBox(call.oy, 1)
              /\ call.oy = Mirror(call.y, 1)
              /\ call.ouy = -call.uy
        /\ ~call.invalid /\ Untouched

\* C2 amended: under Reflecting, on every axis crossed by less than the domain
\* length of that axis the new position is the mirror image about the crossed
\* boundary and the momentum of that axis is negated; on every crossed axis
\* the new position is inside [lo, hi]; the call returns false and leaves the
\* weight and the id untouched.
C2_MirrorSingleCrossing ==
    (call.made /\ m_boundary_particles = Reflecting) =>
        /\ Crossed(call.x, 0) =>
              /\ InBox(call.ox, 0)
              /\ Overshoot(call.x, 0) < Length(0) =>
                    call.ox = Mirror(call.x, 0) /\ call.oux = -call.ux
        /\ Crossed(call.y, 1) =>
              /\ InBox(call.oy, 1)
              /\ Overshoot(call.y, 1) < Length(1) =>
                    call.oy = Mirror(call.y, 1) /\ call.ouy = -call.uy
        /\ ~call.invalid /\ Untouched

C2_Witness ==
    /\ call.made /\ m_boundary_particles = Reflecting
    /\ call.x > m_phi[0] /\ Overshoot(call.x, 0) < Length(0)
    /\ call.y < m_plo[1] /\ Overshoot(call.y, 1) < Length(1)
    /\ call.oux = -call.ux /\ call.ouy = -call.uy

\* C3: under Periodic, a call on an out-of-bounds particle yields x and y equal
\* to the arguments modulo the domain length of the axis and inside [lo, hi],
\* leaves ux, uy, the weight and the id as they were and returns false; no
\* sequence of calls under Periodic leaves an invalid particle.
C3_PeriodicWraps ==
    m_boundary_particles = Periodic =>
        /\ \A ip \in DOMAIN ptd : is_valid(ptd[ip].id)
        /\ (call.made /\ OutOfBox(call.x, call.y)) =>
              /\ (call.ox - call.x) % Length(0) = 0
              /\ (call.oy - call.y) % Length(1) = 0
              /\ InBox(call.ox, 0) /\ InBox(call.oy, 1)
              /\ call.oux = call.ux /\ call.ouy = call.uy
              /\ ~call.invalid /\ Untouched

C3_Witness ==
    /\ call.made /\ m_boundary_particles = Periodic
    /\ call.x < m_plo[0] /\ call.y > m_phi[1]
    /\ call.ox # call.x /\ call.oy # call.y

-----------------------------------------------------------------------------
(* The life cycle of the particles of a tile *)

\* a small transverse box, one cell wide on each axis
LifeLo == [d \in {0, 1} |-> 0]
LifeHi == [d \in {0, 1} |-> 1]

InitLife ==
    /\ IdleC /\ IdleF /\ IdleD /\ IdleM /\ IdleRest
    /\ m_boundary_particles \in ParticleBoundary
    /\ m_plo = LifeLo
    /\ m_phi = LifeHi
    /\ ptd = [ip \in 0..(NPart - 1) |->
                 [x |-> m_plo[0], y |-> m_phi[1], ux |-> 2, uy |-> -1,
                  w |-> MaxWeight, id |-> ip + 1]]
    /\ call = NoCall
    /\ depos = NoDepos

(* Removal of a particle that violates the QSA weighting bound *)
RemoveQSA_keepvalid(p) == [p EXCEPT !.w = 0]

RemoveQSA(p) == [p EXCEPT !.w = 0, !.id = make_invalid(p.id)]

(* Advance-one-slice of particle ip: skipped for an invalid particle; the
   pusher moves a valid one to (x, y) with its momentum, a particle beyond
   the QSA weighting bound is removed, otherwise the boundary policy is
   applied and the particle written back unless it was absorbed. *)
AdvanceSlice(ip, x, y, qsa_violated) ==
    /\ is_valid(ptd[ip].id)
    /\ LET r == EnforceBC(m_boundary_particles, m_plo, m_phi, ptd[ip],
                          x, y, ptd[ip].ux, ptd[ip].uy)
       IN  ptd' = [ptd EXCEPT ![ip] =
                      IF qsa_violated THEN RemoveQSA(@)
                      ELSE IF r.invalid THEN [@ EXCEPT !.w = r.w, !.id = r.id]
                      ELSE [x |-> r.x, y |-> r.y, ux |-> r.ux, uy |-> r.uy,
                            w |-> r.w, id |-> r.id]]
    /\ depos' = NoDepos
    /\ UNCHANGED <<notp, m_boundary_particles, m_plo, m_phi, call>>

(* Any kernel applying the functor to particle ip, valid or not: the functor
   itself has no validity test; only the weight and the id are stored. *)
ApplyBC(ip, x, y) ==
    /\ LET r == EnforceBC(m_boundary_particles, m_plo, m_phi, ptd[ip],
                          x, y, ptd[ip].ux, ptd[ip].uy)
       IN  /\ ptd' = [ptd EXCEPT ![ip] = [@ EXCEPT !.w = r.w, !.id = r.id]]
           /\ ptd' # ptd
    /\ depos' = NoDepos
    /\ UNCHANGED <<notp, m_boundary_particles, m_plo, m_phi, call>>

(* ReorderParticles: a permutation of the slots, here one transposition *)
ReorderParticles(i, j) ==
    /\ i < j
    /\ ptd' = [ptd EXCEPT ![i] = ptd[j], ![j] = ptd[i]]
    /\ depos' = NoDepos
    /\ UNCHANGED <<notp, m_boundary_particles, m_plo, m_phi, call>>

NextLife ==
    \/ \E ip \in DOMAIN ptd : \E x \in PushRange(0), y \in PushRange(1) :
          \E q \in BOOLEAN : AdvanceSlice(ip, x, y, q)
    \/ \E ip \in DOMAIN ptd : \E x \in PushRange(0), y \in PushRange(1) :
          ApplyBC(ip, x, y)
    \/ \E i \in DOMAIN ptd, j \in DOMAIN ptd : ReorderParticles(i, j)
    \/ Deposit

SpecLife == InitLife /\ [][NextLife]_vars

\* C4: validity is one-way. Every particle starts valid, and a particle that
\* is invalid is, after any step (functor call under any boundary policy,
\* advance, deposition, reordering), still in the tile, still invalid and
\* still of weight zero.
C4_InvalidIsTerminal ==
    [][\A i \in DOMAIN ptd :
          ~is_valid(ptd[i].id) =>
              /\ ptd[i].w = 0
              /\ \E j \in DOMAIN ptd' :
                    ptd'[j].id = ptd[i].id /\ ptd'[j].w = 0]_vars

C4_Witness ==
    /\ depos.made
    /\ \E i \in DOMAIN ptd :
          /\ ~is_valid(ptd[i].id) /\ ptd[i].id # -(i + 1)
          /\ depos.rho[i] = 0
    /\ \E i \in DOMAIN ptd : is_valid(ptd[i].id) /\ ptd[i].x # m_plo[0]

-----------------------------------------------------------------------------
(* Registering and looking up components *)

\* argument lists of one multi_emplace call
CompLists == {<<a>> : a \in Names} \cup {<<a, b>> : a \in Names, b \in Names}

InitComps == IdleP /\ IdleC /\ IdleF /\ IdleD /\ IdleM /\ IdleRest

(* Comps[role].multi_emplace(N_Comps, comps...) *)
Register(role, comps) ==
    /\ ~aborted
    /\ N_Comps + Len(comps) <= MaxComps
    /\ LET r == multi_emplace(Comps[role], N_Comps, comps)
       IN  /\ Comps' = [Comps EXCEPT ![role] = r.map]
           /\ N_Comps' = r.n
    /\ emplaced' = emplaced \o
                      [i \in 1..Len(comps) |-> <<role, comps[i], N_Comps + i - 1>>]
    /\ looked' = NoLook
    /\ UNCHANGED <<notc, ErrorStream, aborted>>

(* Comps[role][name], as in Fields::getField *)
Lookup(role, name) ==
    /\ ~aborted
    /\ LET r == assert_map_index(Comps[role], name)
       IN  /\ looked' = [made |-> TRUE, role |-> role, name |-> name,
                         ok |-> r.ok, idx |-> r.idx]
           /\ ErrorStream' = ErrorStream \o r.err
           /\ aborted' = ~r.ok
    /\ UNCHANGED <<notc, Comps, N_Comps, emplaced>>

NextComps ==
    \/ \E role \in Roles, comps \in CompLists : Register(role, comps)
    \/ \E role \in Roles, name \in Names : Lookup(role, name)

SpecComps == InitComps /\ [][NextComps]_vars

\* positions in the log at which name was emplaced for role
EmplacedAt(role, name) ==
    {i \in 1..Len(emplaced) : emplaced[i][1] = role /\ emplaced[i][2] = name}
\* the index given to the first emplace of name for role
FirstIndex(role, name) ==
    LET i == CHOOSE i \in EmplacedAt(role, name) :
                 \A j \in EmplacedAt(role, name) : i <= j
    IN  emplaced[i][3]
\* the names emplaced for role, each with its first index
Listing(role) ==
    {<<emplaced[i][2], FirstIndex(role, emplaced[i][2])>> :
        i \in {j \in 1..Len(emplaced) : emplaced[j][1] = role}}

\* C5: a lookup of a name in the registry of a role succeeds exactly when the
\* name was registered before for that role, and then returns the index it
\* was registered with; otherwise (also when only another role has the name)
\* the missing name and the names and indices of that role are reported and
\* the run ends with a failed assertion.
C5_LookupRegisteredOrFatal ==
    looked.made =>
        IF EmplacedAt(looked.role, looked.name) # {}
        THEN /\ looked.ok /\ ~aborted
             /\ looked.idx = FirstIndex(looked.role, looked.name)
             /\ ErrorStream = << >>
        ELSE /\ ~looked.ok /\ aborted
             /\ ErrorStream = <<[missing |-> looked.name,
                                 allocated |-> Listing(looked.role)]>>

C5_Witness ==
    /\ looked.made /\ ~looked.ok /\ aborted
    /\ \E r \in Roles : EmplacedAt(r, looked.name) # {}
    /\ Listing(looked.role) # {}
    /\ Len(ErrorStream) = 1

-----------------------------------------------------------------------------
(* The slice buffers of Fields *)

Levels == 0..(NLev - 1)
Cells == 0..(NCell - 1)

(* The registrations of AllocData: a sequence of multi_emplace calls
   <<role, comps>> sharing the counter N_Comps *)
RECURSIVE RegisterAll(_, _)
RegisterAll(reg, calls) ==
    IF calls = << >> THEN reg
    ELSE LET role == Head(calls)[1]
             comps == Head(calls)[2]
             r == multi_emplace(reg.Comps[role], reg.N_Comps, comps)
         IN  RegisterAll(
                 [Comps |-> [reg.Comps EXCEPT ![role] = r.map],
                  N_Comps |-> r.n,
                  emplaced |-> reg.emplaced \o
                      [i \in 1..Len(comps) |-> <<role, comps[i], reg.N_Comps + i - 1>>]],
                 Tail(calls))

NoComps == [Comps |-> [r \in Roles |-> EmptyMap], N_Comps |-> 0, emplaced |-> << >>]

\* two orders in which the components of This and Previous are registered
Layouts ==
    {<< <<WhichSlice.This, <<"Bx", "By">> >>, <<WhichSlice.Previous, <<"Bx", "By">> >> >>,
     << <<WhichSlice.Previous, <<"By", "Bx">> >>, <<WhichSlice.This, <<"Bx", "By">> >> >>}

\* the value a cell of a component holds at first: all different
InitialValue(lev, cell, c) == 100 * lev + 10 * cell + c + 1

InitFields ==
    /\ IdleP /\ IdleD /\ IdleM /\ IdleRest
    /\ \E calls \in Layouts :
          LET reg == RegisterAll(NoComps, calls)
          IN  /\ Comps = reg.Comps
              /\ N_Comps = reg.N_Comps
              /\ emplaced = reg.emplaced
    /\ looked = NoLook
    /\ ErrorStream = << >>
    /\ aborted = FALSE
    /\ m_slices = [lev \in Levels |-> [cell \in Cells |->
                      [c \in 0..(N_Comps - 1) |-> InitialValue(lev, cell, c)]]]
    /\ fop = NoOp
    /\ trip = NoTrip

\* every pair reads the array as it was before the loop
copy_comps_unordered(array, c_idx_dst, c_idx_src) ==
    [c \in DOMAIN array |->
        LET ns == {n \in 1..Len(c_idx_dst) : c_idx_dst[n] = c}
        IN  IF ns = {} THEN array[c]
            ELSE array[c_idx_src[CHOOSE n \in ns : \A k \in ns : k <= n]]]

\* a loop that stops after its first component
copy_comps_first(array, c_idx_dst, c_idx_src) ==
    IF c_idx_dst = << >> THEN array
    ELSE [array EXCEPT ![Head(c_idx_dst)] = array[Head(c_idx_src)]]

(* The loop of the kernel at one cell:
   for n: array(i,j,c_idx_dst[n]) = array(i,j,c_idx_src[n]) *)
RECURSIVE copy_comps(_, _, _)
copy_comps(array, c_idx_dst, c_idx_src) ==
    IF c_idx_dst = << >> THEN array
    ELSE copy_comps([array EXCEPT ![Head(c_idx_dst)] = array[Head(c_idx_src)]],
                    Tail(c_idx_dst), Tail(c_idx_src))

(* Fields::shift once the indices are known: every cell of level lev *)
shift_reversed(slices, lev, c_idx_dst, c_idx_src) ==
    [slices EXCEPT ![lev] =
        [cell \in DOMAIN slices[lev] |->
            copy_comps(slices[lev][cell], c_idx_src, c_idx_dst)]]

shift(slices, lev, c_idx_dst, c_idx_src) ==
    [slices EXCEPT ![lev] =
        [cell \in DOMAIN slices[lev] |->
            copy_comps(slices[lev][cell], c_idx_dst, c_idx_src)]]

\* both index arrays taken from the source slice
Lookups_src(islice_dst, islice_src, comps) ==
    [n \in 1..(2 * Len(comps)) |->
        IF n <= Len(comps)
        THEN assert_map_index(Comps[islice_src], comps[n])
        ELSE assert_map_index(Comps[islice_src], comps[n - Len(comps)])]

(* The lookups of a call with component names comps: first every
   Comps[islice_src][comps], then every Comps[islice_dst][comps] *)
Lookups(islice_dst, islice_src, comps) ==
    [n \in 1..(2 * Len(comps)) |->
        IF n <= Len(comps)
        THEN assert_map_index(Comps[islice_src], comps[n])
        ELSE assert_map_index(Comps[islice_dst], comps[n - Len(comps)])]

\* the first failed lookup of looks, 0 if none failed
FirstFailed(looks) ==
    IF \A n \in DOMAIN looks : looks[n].ok THEN 0
    ELSE CHOOSE n \in DOMAIN looks :
             ~looks[n].ok /\ \A k \in DOMAIN looks : k < n => looks[k].ok

(* A call shift(lev, islice_dst, islice_src, comps...), named op in fop *)
ShiftCall(op, lev, islice_dst, islice_src, comps) ==
    LET looks == Lookups(islice_dst, islice_src, comps)
        bad == FirstFailed(looks)
        n == Len(comps)
    IN  /\ ~aborted
        /\ fop' = [op |-> op, lev |-> lev]
        /\ IF bad = 0
           THEN /\ m_slices' = shift(m_slices, lev,
                                     [k \in 1..n |-> looks[n + k].idx],
                                     [k \in 1..n |-> looks[k].idx])
                /\ UNCHANGED <<ErrorStream, aborted>>
           ELSE /\ ErrorStream' = ErrorStream \o looks[bad].err
                /\ aborted' = TRUE
                /\ UNCHANGED m_slices
        /\ UNCHANGED <<notf, Comps, N_Comps, emplaced, looked>>

\* the components ShiftSlices moves
ShiftedComps == <<"Bx", "By">>

(* Fields::ShiftSlices(lev): the current slice becomes the previous one *)
ShiftSlices(lev) ==
    /\ ShiftCall("ShiftSlices", lev, WhichSlice.Previous, WhichSlice.This, ShiftedComps)
    /\ trip' = [stage |-> 1, lev |-> lev, before |-> m_slices]

(* The shift in the opposite sense, right after a ShiftSlices(lev) *)
ShiftOpposite(lev) ==
    /\ trip.stage = 1 /\ trip.lev = lev
    /\ ShiftCall("ShiftOpposite", lev, WhichSlice.This, WhichSlice.Previous, ShiftedComps)
    /\ trip' = [trip EXCEPT !.stage = 2]

(* Any other call of Fields::shift *)
Shift(lev, islice_dst, islice_src, comps) ==
    /\ ShiftCall("shift", lev, islice_dst, islice_src, comps)
    /\ trip' = NoTrip

\* the slices the calls are made with: Next has no component registered here
ShiftRoles == {WhichSlice.Next, WhichSlice.This, WhichSlice.Previous}

NextFields ==
    \/ \E lev \in Levels : ShiftSlices(lev)
    \/ \E lev \in Levels : ShiftOpposite(lev)
    \/ \E lev \in Levels, d \in ShiftRoles, s \in ShiftRoles, comps \in CompLists :
          Shift(lev, d, s, comps)

SpecFields == InitFields /\ [][NextFields]_vars

\* the contents of component name of role in slices, cell by cell
Contents(slices, lev, role, name) ==
    [cell \in DOMAIN slices[lev] |-> slices[lev][cell][Comps[role][name]]]

\* the role Previous holds a component under the index of name
IsPreviousIndex(c, name) ==
    /\ name \in DOMAIN Comps[WhichSlice.Previous]
    /\ Comps[WhichSlice.Previous][name] = c

\* the round trip is complete
RoundTripDone == trip.stage = 2 /\ ~aborted

(* C6 as stated: shifting the slice buffers by one and then by one in the
   opposite sense restores the original contents of every named component
   of every slice role *)
C6_RoundTripRestoresAll ==
    RoundTripDone =>
        \A lev \in Levels, role \in Roles : \A name \in DOMAIN Comps[role] :
            Contents(m_slices, lev, role, name) = Contents(trip.before, lev, role, name)

(* C6 amended: after ShiftSlices(lev) and the opposite shift, the shifted
   components of Previous at level lev hold the original contents of the
   same components of This, and every other component of every role and
   level holds its original contents: the shift is a copy, the round trip
   leaves the buffers as the first shift left them *)
C6_RoundTripKeepsSource ==
    RoundTripDone =>
        \A lev \in Levels, cell \in Cells, c \in 0..(N_Comps - 1) :
            IF lev = trip.lev /\ \E n \in 1..Len(ShiftedComps) : IsPreviousIndex(c, ShiftedComps[n])
            THEN \A n \in 1..Len(ShiftedComps) :
                    IsPreviousIndex(c, ShiftedComps[n]) =>
                        m_slices[lev][cell][c] =
                            trip.before[lev][cell][Comps[WhichSlice.This][ShiftedComps[n]]]
            ELSE m_slices[lev][cell][c] = trip.before[lev][cell][c]

\* a round trip was made and the original contents of Previous are gone
C6_Witness ==
    /\ RoundTripDone
    /\ fop.op = "ShiftOpposite"
    /\ \E name \in DOMAIN Comps[WhichSlice.Previous] :
          Contents(m_slices, trip.lev, WhichSlice.Previous, name)
              # Contents(trip.before, trip.lev, WhichSlice.Previous, name)
    /\ \A name \in DOMAIN Comps[WhichSlice.This] :
          Contents(m_slices, trip.lev, WhichSlice.This, name)
              = Contents(trip.before, trip.lev, WhichSlice.This, name)

\* the buffers of slices: which levels, cells and components exist
Shape(slices) ==
    [lev \in DOMAIN slices |-> [cell \in DOMAIN slices[lev] |-> DOMAIN slices[lev][cell]]]

\* this step is a call ShiftSlices(lev) that returned
ShiftSlicesStep(lev) ==
    /\ fop'.op = "ShiftSlices" /\ fop'.lev = lev
    /\ trip'.stage = 1 /\ trip'.before = m_slices
    /\ ~aborted'

(* C7: the slice being computed is held in the role This, index 1; after
   ShiftSlices(lev) the role Previous holds exactly the contents the role
   This held before the call, This and the other levels still hold theirs,
   and the buffers are the same ones: none is allocated or freed *)
C7_ShiftSlicesKeepsPrevious ==
    [][\A lev \in Levels : ShiftSlicesStep(lev) =>
          /\ WhichSlice.This = 1
          /\ \A n \in 1..Len(ShiftedComps) :
                /\ Contents(m_slices', lev, WhichSlice.Previous, ShiftedComps[n])
                      = Contents(m_slices, lev, WhichSlice.This, ShiftedComps[n])
                /\ Contents(m_slices', lev, WhichSlice.This, ShiftedComps[n])
                      = Contents(m_slices, lev, WhichSlice.This, ShiftedComps[n])
          /\ \A other \in Levels \ {lev} : m_slices'[other] = m_slices[other]
          /\ Shape(m_slices') = Shape(m_slices)
          /\ N_Comps' = N_Comps /\ Comps' = Comps]_vars

\* ShiftSlices has just replaced the contents of Previous by those of This
C7_Witness ==
    /\ fop.op = "ShiftSlices" /\ trip.stage = 1 /\ ~aborted
    /\ m_slices # trip.before
    /\ \A n \in 1..Len(ShiftedComps) :
          Contents(m_slices, trip.lev, WhichSlice.Previous, ShiftedComps[n])
              = Contents(trip.before, trip.lev, WhichSlice.This, ShiftedComps[n])

\* this step is a call shift(lev, islice_dst, islice_src, comps...) that
\* returned
ShiftStep(lev, islice_dst, islice_src, comps) ==
    /\ \E op \in {"shift", "ShiftSlices", "ShiftOpposite"} :
          ShiftCall(op, lev, islice_dst, islice_src, comps)
    /\ ~aborted'

\* the indices of the components comps of a slice
Selected(role, comps) == {Comps[role][comps[n]] : n \in 1..Len(comps)}

(* C19: after shift(lev, islice_dst, islice_src, comps...) each selected
   component of the destination slice holds, at every cell of level lev,
   what the component of that name of the source slice held before the
   call; the components of the source slice, the components not selected
   and the other levels hold what they held *)
C19_ShiftCopiesSelected ==
    [][\A lev \in Levels, d \in ShiftRoles, s \in ShiftRoles, comps \in CompLists :
          ShiftStep(lev, d, s, comps) =>
              /\ \A n \in 1..Len(comps) :
                    comps[n] \in DOMAIN Comps[d] /\ comps[n] \in DOMAIN Comps[s]
              /\ \A n \in 1..Len(comps) :
                    Contents(m_slices', lev, d, comps[n]) = Contents(m_slices, lev, s, comps[n])
              /\ \A name \in DOMAIN Comps[s] :
                    Contents(m_slices', lev, s, name) = Contents(m_slices, lev, s, name)
              /\ \A cell \in Cells, c \in (0..(N_Comps - 1)) \ Selected(d, comps) :
                    m_slices'[lev][cell][c] = m_slices[lev][cell][c]
              /\ \A other \in Levels \ {lev} : m_slices'[other] = m_slices[other]
              /\ Shape(m_slices') = Shape(m_slices)
      ]_vars

\* a shift of Bx alone from This to Previous: Previous holds the first Bx of
\* This and still its own first By
C19_Witness ==
    /\ fop.op = "shift" /\ ~aborted
    /\ Contents(m_slices, fop.lev, WhichSlice.Previous, "Bx")
          = [cell \in Cells |-> InitialValue(fop.lev, cell, Comps[WhichSlice.This]["Bx"])]
    /\ Contents(m_slices, fop.lev, WhichSlice.Previous, "By")
          = [cell \in Cells |-> InitialValue(fop.lev, cell, Comps[WhichSlice.Previous]["By"])]

-----------------------------------------------------------------------------
(* The slice loop of Evolve and the predictor corrector loop of a slice *)

Errors == 0..MaxErr

Configs ==
    [m_explicit : BOOLEAN,
     m_max_step : {0, 1},
     m_predcorr_max_iterations : 1..MaxIter,
     m_predcorr_B_error_tolerance : 1..MaxErr]

\* the slice at the head of the domain, computed first
HeadSlice == NSlice - 1

\* the slice computed after islice, towards the tail
NextSlice_skip(n) == n - 2

NextSlice(n) == n - 1

InitDrive ==
    /\ IdleP /\ IdleC /\ IdleF /\ IdleM /\ IdleRest
    /\ config \in Configs
    /\ step = 0
    /\ islice = HeadSlice
    /\ phase = "loop"
    /\ i_iter = 0
    /\ relative_Bfield_error = 0
    /\ errs = << >>
    /\ m_predcorr_avg_iterations = NoAvg
    /\ m_predcorr_avg_B_error = NoAvg
    /\ started = << >>
    /\ shifted = << >>

\* what a step inside SolveOneSlice leaves alone
SameSlice == UNCHANGED <<notd, config, step, islice, started, shifted>>
SameLoop == UNCHANGED <<i_iter, relative_Bfield_error, errs,
                        m_predcorr_avg_iterations, m_predcorr_avg_B_error>>

(* Evolve: the loop over the slices calls SolveOneSlice(islice, step) *)
CallSolveOneSlice ==
    /\ phase = "loop" /\ islice >= 0
    /\ phase' = "InitializeSlices"
    /\ started' = Append(started, islice)
    /\ SameLoop
    /\ UNCHANGED <<notd, config, step, islice, shifted>>

InitializeSlices ==
    /\ phase = "InitializeSlices"
    /\ phase' = "deposit"
    /\ SameLoop /\ SameSlice

DepositCurrent ==
    /\ phase = "deposit"
    /\ phase' = "solve"
    /\ SameLoop /\ SameSlice

(* explicit solver: one direct solve instead of the loop *)
ExplicitSolve ==
    /\ phase = "solve" /\ config.m_explicit
    /\ phase' = "advance"
    /\ SameLoop /\ SameSlice

(* PredictorCorrectorLoopToSolveBxBy: the initial guess, no iteration yet *)
BeginPredictorCorrector ==
    /\ phase = "solve" /\ ~config.m_explicit
    /\ phase' = "predcorr"
    /\ i_iter' = 0
    /\ errs' = << >>
    /\ UNCHANGED <<relative_Bfield_error, m_predcorr_avg_iterations, m_predcorr_avg_B_error>>
    /\ SameSlice

\* the loop goes on: the cap is not reached and the last iteration, if
\* there was one, did not bring the error below the tolerance
LoopCondition_nocheck(cfg, it, err) == it < cfg.m_predcorr_max_iterations

LoopCondition(cfg, it, err) ==
    /\ it < cfg.m_predcorr_max_iterations
    /\ (it = 0 \/ ~(err < cfg.m_predcorr_B_error_tolerance))

(* one iteration: advance and deposit the plasma, solve, mix, compute the error *)
Iterate(err) ==
    /\ phase = "predcorr"
    /\ LoopCondition(config, i_iter, relative_Bfield_error)
    /\ i_iter' = i_iter + 1
    /\ relative_Bfield_error' = err
    /\ errs' = Append(errs, err)
    /\ UNCHANGED <<phase, m_predcorr_avg_iterations, m_predcorr_avg_B_error>>
    /\ SameSlice

\* a running average with one more sample
AddSample(avg, x) == [sum |-> avg.sum + x, n |-> avg.n + 1]

(* the loop is over, converged or not: the averages are updated and
   SolveOneSlice goes on *)
EndPredictorCorrector ==
    /\ phase = "predcorr"
    /\ ~LoopCondition(config, i_iter, relative_Bfield_error)
    /\ m_predcorr_avg_iterations' = AddSample(m_predcorr_avg_iterations, i_iter)
    /\ m_predcorr_avg_B_error' = AddSample(m_predcorr_avg_B_error, relative_Bfield_error)
    /\ phase' = "advance"
    /\ UNCHANGED <<i_iter, relative_Bfield_error, errs>>
    /\ SameSlice

AdvancePlasma ==
    /\ phase = "advance"
    /\ phase' = "shift"
    /\ SameLoop /\ SameSlice

(* the last call of SolveOneSlice, then the loop of Evolve moves the index *)
ShiftAndReturn ==
    /\ phase = "shift"
    /\ shifted' = Append(shifted, islice)
    /\ islice' = NextSlice(islice)
    /\ phase' = "loop"
    /\ SameLoop
    /\ UNCHANGED <<notd, config, step, started>>

(* after the last slice of a time step the diagnostics are flushed *)
FlushDiagnostics ==
    /\ phase = "loop" /\ islice < 0
    /\ phase' = "flush"
    /\ SameLoop /\ SameSlice

(* Evolve: the next time step starts from the head of the domain *)
NextStep ==
    /\ phase = "flush" /\ step < config.m_max_step
    /\ step' = step + 1
    /\ islice' = HeadSlice
    /\ started' = << >>
    /\ shifted' = << >>
    /\ phase' = "loop"
    /\ SameLoop
    /\ UNCHANGED <<notd, config>>

Finish ==
    /\ phase = "flush" /\ ~(step < config.m_max_step)
    /\ phase' = "done"
    /\ SameLoop /\ SameSlice

NextDrive ==
    \/ CallSolveOneSlice
    \/ InitializeSlices
    \/ DepositCurrent
    \/ ExplicitSolve
    \/ BeginPredictorCorrector
    \/ \E err \in Errors : Iterate(err)
    \/ EndPredictorCorrector
    \/ AdvancePlasma
    \/ ShiftAndReturn
    \/ FlushDiagnostics
    \/ NextStep
    \/ Finish

\* the program is sequential: a step that can be taken is taken
SpecDrive == InitDrive /\ [][NextDrive]_vars /\ WF_vars(NextDrive)

Tolerance == config.m_predcorr_B_error_tolerance
Cap == config.m_predcorr_max_iterations

\* the loop of this slice is running or has just been left
InLoop == phase = "predcorr"

\* an iteration of this loop brought the error below the tolerance
Converged(k) == errs[k] < Tolerance

\* the loop never passes the cap, and no iteration but the last one of the
\* loop has an error below the tolerance
LoopBounded ==
    InLoop =>
        /\ i_iter <= Cap
        /\ Len(errs) = i_iter
        /\ \A k \in 1..(Len(errs) - 1) : ~Converged(k)

\* a step that leaves the loop: converged or at the cap, never fatal, the
\* slice goes on and the averages take the count and the final error
LoopExit ==
    (InLoop /\ phase' # "predcorr") =>
        /\ i_iter >= 1
        /\ Converged(i_iter) \/ i_iter = Cap
        /\ phase' = "advance" /\ islice' = islice /\ ~aborted'
        /\ m_predcorr_avg_iterations'.n = m_predcorr_avg_iterations.n + 1
        /\ m_predcorr_avg_iterations'.sum = m_predcorr_avg_iterations.sum + i_iter
        /\ m_predcorr_avg_B_error'.n = m_predcorr_avg_B_error.n + 1
        /\ m_predcorr_avg_B_error'.sum = m_predcorr_avg_B_error.sum + errs[i_iter]

\* a converged loop makes no further iteration
LoopStopsWhenConverged ==
    (InLoop /\ i_iter >= 1 /\ Converged(i_iter)) => i_iter' = i_iter

(* C8: the predictor corrector loop of a slice terminates: it makes at
   most m_predcorr_max_iterations iterations, stops at the first iteration
   whose error is below the tolerance, and when it ends, at the cap without
   convergence too, the slice goes on to its shift (nothing fatal) with the
   iteration count and the final error added to the running averages *)
C8_PredCorrTerminates ==
    /\ []LoopBounded
    /\ [][LoopExit /\ LoopStopsWhenConverged]_vars
    /\ (InLoop ~> (phase = "shift"))

\* the cap was reached without convergence and the slice went on
C8_Witness ==
    /\ phase = "shift" /\ ~config.m_explicit
    /\ i_iter = Cap /\ Cap > 1
    /\ \A k \in 1..Len(errs) : ~Converged(k)
    /\ m_predcorr_avg_iterations.n = Len(started)
    /\ m_predcorr_avg_B_error.sum > 0

\* the slices from the head of the domain down to n, in order
RECURSIVE Downto(_)
Downto(n) == IF n > HeadSlice THEN << >> ELSE Append(Downto(n + 1), n)

\* SolveOneSlice is running on slice islice
InSlice == phase \in {"InitializeSlices", "deposit", "solve", "predcorr", "advance", "shift"}

\* the slices started in this step are the head slice and the ones after it,
\* one by one; all of them but the running one are shifted
SlicesInOrder ==
    /\ phase \in {"loop", "flush", "done"} =>
          /\ started = Downto(islice + 1)
          /\ shifted = started
    /\ InSlice =>
          /\ islice >= 0
          /\ started = Downto(islice)
          /\ shifted = Downto(islice + 1)
    /\ phase \in {"flush", "done"} => started = Downto(0)

\* SolveOneSlice starts only when every slice started before is shifted
StartsAfterShift ==
    started' # started /\ started' # << >> => shifted = started /\ phase = "loop"

(* C9: within a time step the slices are processed one after another in
   monotonic order of the slice index: SolveOneSlice of the next slice
   starts only after the current slice is finished and its buffers are
   shifted, and no slice is processed twice or skipped *)
C9_SlicesSequential ==
    /\ []SlicesInOrder
    /\ [][StartsAfterShift]_vars

\* a whole time step was made: every slice once, from head to tail
C9_Witness ==
    /\ phase = "flush" /\ step = 1
    /\ Len(started) = NSlice /\ NSlice > 1
    /\ shifted = started
    /\ \A k \in 1..(Len(started) - 1) : started[k + 1] = started[k] - 1

-----------------------------------------------------------------------------
(* The hand-off of slices between the ranks of the pipeline *)

\* rank 0 is the head rank; rank r takes its slices over from rank r - 1
HeadRankID == 0
Ranks == 0..(NRank - 1)
Upstream(r) == r - 1
HasDownstream(r) == r + 1 \in Ranks

\* the state of slice n as the head rank starts from it
FreshSlice(n) == [slice |-> n, from |-> -1]
NoSlice == [slice |-> -1, from |-> -1]

InitPipe ==
    /\ IdleP /\ IdleC /\ IdleF /\ IdleD /\ IdleRest
    /\ rank_phase = [r \in Ranks |-> "consume"]
    /\ rank_slice = [r \in Ranks |-> HeadSlice]
    /\ held = [r \in Ranks |-> NoSlice]
    /\ chan = [r \in Ranks |-> << >>]
    /\ produced = [r \in Ranks |-> << >>]
    /\ consumed = [r \in Ranks |-> << >>]

\* the slice state a rank takes from what was handed to it
Dequeue_newest(q) == [msg |-> q[Len(q)], rest |-> SubSeq(q, 1, Len(q) - 1)]

Dequeue(q) == [msg |-> Head(q), rest |-> Tail(q)]

(* the head rank has no upstream rank: it starts from the initial state *)
HeadStart(r) ==
    /\ r = HeadRankID
    /\ rank_phase[r] = "consume" /\ rank_slice[r] >= 0
    /\ held' = [held EXCEPT ![r] = FreshSlice(rank_slice[r])]
    /\ rank_phase' = [rank_phase EXCEPT ![r] = "solve"]
    /\ UNCHANGED <<notm, rank_slice, chan, produced, consumed>>

(* any other rank takes over the oldest slice handed to it; with none
   handed over it waits *)
Consume(r) ==
    /\ r # HeadRankID
    /\ rank_phase[r] = "consume" /\ rank_slice[r] >= 0
    /\ chan[r] # << >>
    /\ LET d == Dequeue(chan[r])
       IN  /\ held' = [held EXCEPT ![r] = d.msg]
           /\ chan' = [chan EXCEPT ![r] = d.rest]
           /\ consumed' = [consumed EXCEPT ![r] = Append(@, d.msg.slice)]
    /\ rank_phase' = [rank_phase EXCEPT ![r] = "solve"]
    /\ UNCHANGED <<notm, rank_slice, produced>>

(* SolveOneSlice on the slice the rank holds *)
SolveHeld(r) ==
    /\ rank_phase[r] = "solve"
    /\ rank_phase' = [rank_phase EXCEPT ![r] = "produce"]
    /\ UNCHANGED <<notm, rank_slice, held, chan, produced, consumed>>

(* the slice is finished: it is handed to the next rank, and the rank
   moves on to its next slice *)
Produce(r) ==
    /\ rank_phase[r] = "produce"
    /\ produced' = [produced EXCEPT ![r] = Append(@, held[r].slice)]
    /\ chan' = IF HasDownstream(r)
               THEN [chan EXCEPT ![r + 1] = Append(@, [slice |-> held[r].slice, from |-> r])]
               ELSE chan
    /\ held' = [held EXCEPT ![r] = NoSlice]
    /\ rank_slice' = [rank_slice EXCEPT ![r] = NextSlice(@)]
    /\ rank_phase' = [rank_phase EXCEPT ![r] = "consume"]
    /\ UNCHANGED <<notm, consumed>>

NextPipe ==
    \/ \E r \in Ranks : HeadStart(r)
    \/ \E r \in Ranks : Consume(r)
    \/ \E r \in Ranks : SolveHeld(r)
    \/ \E r \in Ranks : Produce(r)

SpecPipe == InitPipe /\ [][NextPipe]_vars

\* s is the beginning of t
IsPrefix(s, t) == Len(s) <= Len(t) /\ \A k \in 1..Len(s) : s[k] = t[k]

\* the ranks that have an upstream rank
Followers == Ranks \ {HeadRankID}

\* a rank has only taken over, in their order, slices its upstream rank has
\* finished, and it works on the slice it is at, as its upstream left it
ConsumedAfterProduced ==
    \A r \in Followers :
        /\ IsPrefix(consumed[r], produced[Upstream(r)])
        /\ rank_phase[r] \in {"solve", "produce"} =>
              /\ held[r] = [slice |-> rank_slice[r], from |-> Upstream(r)]
              /\ consumed[r] # << >>
              /\ consumed[r][Len(consumed[r])] = rank_slice[r]

\* a rank that is to take over a slice and has been handed none stays where
\* it is; when it takes one, it is the next one its upstream rank finished
BlocksWhenEmpty ==
    \A r \in Followers :
        /\ (rank_phase[r] = "consume" /\ chan[r] = << >>) =>
              /\ rank_phase'[r] = "consume"
              /\ rank_slice'[r] = rank_slice[r]
              /\ consumed'[r] = consumed[r]
              /\ held'[r] = held[r]
        /\ consumed'[r] # consumed[r] =>
              /\ Len(produced[Upstream(r)]) > Len(consumed[r])
              /\ consumed'[r] = Append(consumed[r],
                                       produced[Upstream(r)][Len(consumed[r]) + 1])

(* C10: in a multi-rank run a rank consumes slice N only after its
   upstream rank has produced slice N, the slices are consumed in the order
   they were produced, and a rank with nothing to consume waits instead of
   going on with stale data *)
C10_HandOffInOrder ==
    /\ []ConsumedAfterProduced
    /\ [][BlocksWhenEmpty]_vars

\* a rank has taken over a slice while two more wait for it, in order, and
\* the rank after it waits with nothing handed to it
C10_Witness ==
    \E r \in Followers, w \in Followers :
        /\ consumed[r] # << >>
        /\ Len(chan[r]) > 1
        /\ chan[r][1].slice > chan[r][2].slice
        /\ rank_phase[w] = "consume" /\ rank_slice[w] >= 0 /\ chan[w] = << >>

-----------------------------------------------------------------------------
(* Parser.H: strings, numbers and the overloads of Parser::fillWithParser *)

(* A std::string is a sequence of characters *)
Digits == <<"0", "1", "2", "3", "4", "5", "6", "7", "8", "9">>
IsDigit(c) == \E d \in 1..10 : Digits[d] = c
DigitVal(c) == (CHOOSE d \in 1..10 : Digits[d] = c) - 1

RECURSIVE NatVal(_)
NatVal(str) ==
    IF str = << >> THEN 0
    ELSE 10 * NatVal(SubSeq(str, 1, Len(str) - 1)) + DigitVal(str[Len(str)])

IsNat(str) == str # << >> /\ \A i \in 1..Len(str) : IsDigit(str[i])

\* the expressions of the model: integer literals
IsNumber(str) == IsNat(str) \/ (Len(str) > 1 /\ str[1] = "-" /\ IsNat(Tail(str)))

\* parser.compileHost<0>()() on a literal
ParseValue(str) == IF str[1] = "-" THEN -NatVal(Tail(str)) ELSE NatVal(str)

RECURSIVE NatStr(_)
NatStr(n) == IF n < 10 THEN <<Digits[n + 1]>> ELSE NatStr(n \div 10) \o <<Digits[(n % 10) + 1]>>

\* operator<< of a number
to_string(v) == IF v < 0 THEN <<"-">> \o NatStr(-v) ELSE NatStr(v)

\* std::numeric_limits<int>
IntMax == 2 ^ (IntBits - 1) - 1
IntLowest == -(2 ^ (IntBits - 1))

\* static_cast<int> of an amrex::Long
static_cast_int(v) == ((v - IntLowest) % (2 ^ IntBits)) + IntLowest

\* std::numeric_limits<float>::lowest()
FloatLowest == -FloatMax

\* the doubles a float can hold: every second one, and the two limits
Floats == {f \in FloatLowest..FloatMax : f % 2 = 0 \/ f = FloatMax \/ f = FloatLowest}

Abs(v) == IF v < 0 THEN -v ELSE v

\* static_cast<float> of a double in range: the nearest float, towards zero on a tie
static_cast_float(v) ==
    CHOOSE f \in Floats :
        \A g \in Floats :
            \/ Abs(f - v) < Abs(g - v)
            \/ (Abs(f - v) = Abs(g - v) /\ Abs(f) <= Abs(g))

BadExpression(str) == [what |-> "parser", input |-> str]
OverflowInt == [what |-> "Error: Overflow detected when casting to int"]
OverflowFloat == [what |-> "Error: Overflow detected when casting to float"]

\* the checks before the narrowing
InRangeInt_exclusive(v) == v < IntMax /\ v > IntLowest
InRangeInt(v) == v <= IntMax /\ v >= IntLowest
InRangeFloat(v) == v <= FloatMax /\ v >= FloatLowest

\* what a call does to its output: done, the output, the error written
Filled(v) == [ok |-> TRUE, val |-> v, err |-> << >>]
Fatal(val, e) == [ok |-> FALSE, val |-> val, err |-> <<e>>]

fillWithParser_float(str, val) ==
    IF ~IsNumber(str) THEN Fatal(val, BadExpression(str))
    ELSE LET v == ParseValue(str)
         IN  IF InRangeFloat(v) THEN Filled(static_cast_float(v))
             ELSE Fatal(val, OverflowFloat)

fillWithParser_int(str, val) ==
    IF ~IsNumber(str) THEN Fatal(val, BadExpression(str))
    ELSE LET v == ParseValue(str)
         IN  IF InRangeInt(v) THEN Filled(static_cast_int(v))
             ELSE Fatal(val, OverflowInt)

\* overload resolution on the type of val
fillWithParser(type, str, val) ==
    IF type = "int" THEN fillWithParser_int(str, val) ELSE fillWithParser_float(str, val)

\* a double is stored as it is
fillWithParser_double(str, val) ==
    IF ~IsNumber(str) THEN Fatal(val, BadExpression(str)) ELSE Filled(ParseValue(str))

\* the elements of the input joined by spaces
RECURSIVE JoinWithSpaces(_)
JoinWithSpaces(str_arr) ==
    IF str_arr = << >> THEN << >>
    ELSE IF Len(str_arr) = 1 THEN str_arr[1]
    ELSE str_arr[1] \o <<" ">> \o JoinWithSpaces(Tail(str_arr))

fillWithParserAny(type, str, val) ==
    IF type = "double" THEN fillWithParser_double(str, val) ELSE fillWithParser(type, str, val)

(* the loop for (i = 0; i != n; ++i) fillWithParser(pp, str_arr[i], val_arr[i]),
   from element i on: it ends at the first element that cannot be filled *)
RECURSIVE FillElements(_, _, _, _)
FillElements(type, str_arr, val_arr, i) ==
    IF i > Len(str_arr) THEN Filled(val_arr)
    ELSE LET r == fillWithParserAny(type, str_arr[i], val_arr[i])
         IN  IF r.ok THEN FillElements(type, str_arr, [val_arr EXCEPT ![i] = r.val], i + 1)
             ELSE [ok |-> FALSE, val |-> val_arr, err |-> r.err]

WrongLength(str_arr, size) ==
    [what |-> "has wrong length", elements |-> str_arr, n |-> Len(str_arr), size |-> size]

\* a fixed length that is never checked
fillWithParserArr_fixed_unchecked(type, size, str_arr, val_arr) ==
    FillElements(type, SubSeq(str_arr, 1, IF Len(str_arr) < size THEN Len(str_arr) ELSE size),
                 val_arr, 1)

(* fillWithParserArr for std::array<T, size>, RealVect and IntVect *)
fillWithParserArr_fixed(type, size, str_arr, val_arr) ==
    IF Len(str_arr) # size THEN Fatal(val_arr, WrongLength(str_arr, size))
    ELSE FillElements(type, str_arr, val_arr, 1)

\* dimension of RealVect and IntVect
AMREX_SPACEDIM == 3

ScalarKinds == {"int", "float", "double"}
VectorKinds == {"array", "IntVect", "RealVect"}
Kinds == ScalarKinds \cup VectorKinds

ElementType(kind) == IF kind = "RealVect" THEN "double" ELSE "int"
FixedSize(kind) == IF kind = "array" THEN ArraySize ELSE AMREX_SPACEDIM

\* overload resolution of fillWithParserArr on the type of val
fillWithParserArr(kind, str_arr, val) ==
    IF kind \in ScalarKinds THEN fillWithParserAny(kind, JoinWithSpaces(str_arr), val)
    ELSE fillWithParserArr_fixed(ElementType(kind), FixedSize(kind), str_arr, val)

(* amrex::ParmParse: a table of entries, key -> elements *)
contains(table, key) == key \in DOMAIN table

NotFound(name, key) == [what |-> "ParmParse::getarr: not found", table |-> name, key |-> key]

\* what a ...WithParser call does: returned or not, its result, the output,
\* the error written, the tables searched
Returned(ret, val, tables) ==
    [ok |-> TRUE, ret |-> ret, val |-> val, err |-> << >>, consulted |-> tables]
Died(val, err, tables) ==
    [ok |-> FALSE, ret |-> FALSE, val |-> val, err |-> err, consulted |-> tables]

\* a get that goes on with the output as it is
getWithParser_lenient(kind, name, table, key, val) ==
    IF ~contains(table, key) THEN Returned(TRUE, val, <<name>>)
    ELSE LET r == fillWithParserArr(kind, table[key], val)
         IN  IF r.ok THEN Returned(TRUE, r.val, <<name>>) ELSE Died(r.val, r.err, <<name>>)

getWithParser(kind, name, table, key, val) ==
    IF ~contains(table, key) THEN Died(val, <<NotFound(name, key)>>, <<name>>)
    ELSE LET r == fillWithParserArr(kind, table[key], val)
         IN  IF r.ok THEN Returned(TRUE, r.val, <<name>>) ELSE Died(r.val, r.err, <<name>>)

queryWithParser(kind, name, table, key, val) ==
    IF ~contains(table, key) THEN Returned(FALSE, val, <<name>>)
    ELSE LET r == fillWithParserArr(kind, table[key], val)
         IN  IF r.ok THEN Returned(TRUE, r.val, <<name>>) ELSE Died(r.val, r.err, <<name>>)

\* both tables searched, the alternative one last
queryWithParserAlt_both(kind, pp, key, val, pp_alt) ==
    LET q == queryWithParser(kind, "pp", pp, key, val)
        a == IF q.ok THEN queryWithParser(kind, "pp_alt", pp_alt, key, q.val) ELSE q
    IN  IF ~q.ok THEN q
        ELSE [a EXCEPT !.ret = q.ret \/ a.ret, !.consulted = q.consulted \o a.consulted]

(* queryWithParser(pp, ...) || queryWithParser(pp_alt, ...) *)
queryWithParserAlt(kind, pp, key, val, pp_alt) ==
    LET q == queryWithParser(kind, "pp", pp, key, val)
    IN  IF ~q.ok \/ q.ret THEN q
        ELSE LET a == queryWithParser(kind, "pp_alt", pp_alt, key, q.val)
             IN  [a EXCEPT !.consulted = q.consulted \o a.consulted]

getWithParserAlt(kind, pp, key, val, pp_alt) ==
    LET q == queryWithParserAlt(kind, pp, key, val, pp_alt)
    IN  IF ~q.ok \/ q.ret THEN q
        ELSE LET g == getWithParser(kind, "pp", pp, key, q.val)
             IN  [g EXCEPT !.consulted = q.consulted \o g.consulted]

-----------------------------------------------------------------------------
(* Reading parameters from the input file *)

\* the parameter read
TheKey == "k"
NoTable == [k \in {} |-> << >>]
TableWith(entry) == [k \in {TheKey} |-> entry]

\* literals around the limits of int and float
NumStrs ==
    {to_string(v) : v \in {IntLowest - 1, IntLowest, 0, IntMax, IntMax + 1,
                           FloatLowest - 1, FloatLowest, FloatMax - 1, FloatMax, FloatMax + 1}}

VecStrs == {to_string(1), to_string(2)}

\* entries of one element, of several elements, and one with an element
\* too large for int
Entries ==
    {<<a>> : a \in NumStrs}
    \cup UNION {[1..n -> VecStrs] : n \in 2..(AMREX_SPACEDIM + 1)}
    \cup {<<to_string(1), to_string(IntMax + 1), to_string(2)>>}

AltEntries == {<<to_string(3)>>, <<to_string(3), to_string(4)>>,
               <<to_string(3), to_string(4), to_string(5)>>}

\* the value of the output variable before the call
Default(kind) ==
    IF kind \in ScalarKinds THEN -1 ELSE [i \in 1..FixedSize(kind) |-> -1]

NoParse == [fn |-> "none", kind |-> "int", before |-> -1, ok |-> TRUE, ret |-> FALSE,
            val |-> -1, consulted |-> << >>]

InitParse ==
    /\ IdleP /\ IdleC /\ IdleF /\ IdleD /\ IdleM /\ IdleN /\ IdleT /\ IdleS /\ IdleX
    /\ \E pp \in {NoTable} \cup {TableWith(e) : e \in Entries},
          pp_alt \in {NoTable} \cup {TableWith(e) : e \in AltEntries} :
          inputs = [pp |-> pp, pp_alt |-> pp_alt]
    /\ pcall = NoParse
    /\ recursive_symbols = {}

\* a call fn on an output of kind kind that did r
ParserCall(fn, kind, r) ==
    /\ ~aborted
    /\ pcall' = [fn |-> fn, kind |-> kind, before |-> Default(kind), ok |-> r.ok,
                 ret |-> r.ret, val |-> r.val, consulted |-> r.consulted]
    /\ ErrorStream' = ErrorStream \o r.err
    /\ aborted' = ~r.ok
    /\ UNCHANGED <<nota, inputs, recursive_symbols, Comps, N_Comps, emplaced, looked>>

GetCall(kind) ==
    /\ kind \in Kinds
    /\ ParserCall("getWithParser", kind,
          getWithParser(kind, "pp", inputs.pp, TheKey, Default(kind)))

QueryCall(kind) ==
    /\ kind \in Kinds
    /\ ParserCall("queryWithParser", kind,
          queryWithParser(kind, "pp", inputs.pp, TheKey, Default(kind)))

QueryAltCall(kind) ==
    /\ kind \in Kinds
    /\ ParserCall("queryWithParserAlt", kind,
          queryWithParserAlt(kind, inputs.pp, TheKey, Default(kind), inputs.pp_alt))

GetAltCall(kind) ==
    /\ kind \in Kinds
    /\ ParserCall("getWithParserAlt", kind,
          getWithParserAlt(kind, inputs.pp, TheKey, Default(kind), inputs.pp_alt))

NextParse ==
    \/ \E kind \in Kinds : GetCall(kind)
    \/ \E kind \in Kinds : QueryCall(kind)
    \/ \E kind \in Kinds : QueryAltCall(kind)
    \/ \E kind \in Kinds : GetAltCall(kind)

SpecParse == InitParse /\ [][NextParse]_vars

\* the last call was fn, on the table pp alone
Called(fn) == pcall.fn = fn
Present(table) == contains(table, TheKey)

\* the output is what the call found in it
Unwritten == pcall.val = pcall.before

\* number v is what the element str of the input says
IsValueOf(kind, v, str) ==
    IF kind = "float"
    THEN v \in Floats /\ \E d \in (v - 1)..(v + 1) : to_string(d) = str
    ELSE to_string(v) = str

\* the output is the parsed value of entry
IsParsedFrom(kind, val, entry) ==
    IF kind \in ScalarKinds
    THEN Len(entry) = 1 /\ IsValueOf(kind, val, entry[1])
    ELSE /\ Len(entry) = FixedSize(kind)
         /\ \A i \in 1..FixedSize(kind) : IsValueOf(ElementType(kind), val[i], entry[i])

\* the run has ended with the error e
FatalWith(e) == aborted /\ ~pcall.ok /\ ErrorStream = <<e>>

(* C11: getWithParser on a key absent from the input is a fatal error;
   queryWithParser on an absent key returns false and leaves the output
   unchanged, and on a present key it returns true with the output set to
   the parsed value *)
C11_RequiredAndOptional ==
    /\ (Called("getWithParser") /\ ~Present(inputs.pp)) =>
          FatalWith(NotFound("pp", TheKey)) /\ Unwritten
    /\ (Called("queryWithParser") /\ ~Present(inputs.pp)) =>
          ~aborted /\ pcall.ok /\ ~pcall.ret /\ Unwritten /\ ErrorStream = << >>
    /\ (Called("queryWithParser") /\ Present(inputs.pp) /\ pcall.ok) =>
          /\ ~aborted /\ pcall.ret
          /\ IsParsedFrom(pcall.kind, pcall.val, inputs.pp[TheKey])

\* a required parameter was missing, after nothing else had gone wrong
C11_Witness ==
    /\ Called("getWithParser") /\ ~Present(inputs.pp)
    /\ aborted /\ Len(ErrorStream) = 1

\* the last call read the single element str into an output of kind kind
ReadScalar(kind, str) ==
    /\ pcall.fn \in {"getWithParser", "queryWithParser"}
    /\ pcall.kind = kind
    /\ Present(inputs.pp) /\ inputs.pp[TheKey] = <<str>>

\* the numbers of the inputs
InputValues == (IntLowest - FloatMax - 1)..(IntMax + FloatMax + 1)

\* the number a literal stands for
TheValue(str) == CHOOSE v \in InputValues : to_string(v) = str

\* the call returned with v stored in the output
Stored(v) == ~aborted /\ pcall.ok /\ pcall.val = v /\ ErrorStream = << >>

(* C12: a value narrowed to int or to float that lies outside the range of
   the target type is a fatal error with the overflow message and the
   output is not written; every value in [lowest, max], the two bounds
   included, is accepted and stored *)
C12_NarrowingChecked ==
    \A str \in NumStrs :
        LET v == TheValue(str)
        IN  /\ ReadScalar("int", str) =>
                  IF IntLowest <= v /\ v <= IntMax
                  THEN Stored(v)
                  ELSE FatalWith(OverflowInt) /\ Unwritten
            /\ ReadScalar("float", str) =>
                  IF FloatLowest <= v /\ v <= FloatMax
                  THEN /\ \E f \in Floats : Stored(f) /\ Abs(f - v) <= 1
                       /\ v \in {FloatLowest, FloatMax} => Stored(v)
                  ELSE FatalWith(OverflowFloat) /\ Unwritten

\* the smallest value above the range of int was refused
C12_Witness ==
    /\ ReadScalar("int", to_string(IntMax + 1))
    /\ FatalWith(OverflowInt) /\ Unwritten

\* the last call read the entry of the key into a vector of fixed length
ReadVector(kind) ==
    /\ pcall.fn \in {"getWithParser", "queryWithParser"}
    /\ pcall.kind = kind
    /\ Present(inputs.pp)

\* every element of the entry can be stored in an element of the output
ElementsFit(kind, entry) ==
    \A i \in 1..Len(entry) :
        ElementType(kind) = "int" => InRangeInt(TheValue(entry[i]))

(* C13: reading a vector of fixed length (std::array of size N, RealVect
   or IntVect of size 3) from an entry with another number of elements is a
   fatal error that reports the elements, their number and the expected
   length, with no element of the output written; with the right length,
   element i of the output is the parsed value of element i of the entry *)
C13_FixedLengthChecked ==
    \A kind \in VectorKinds :
        ReadVector(kind) =>
            LET entry == inputs.pp[TheKey]
                size == IF kind = "array" THEN ArraySize ELSE 3
            IN  IF Len(entry) # size
                THEN /\ aborted /\ ~pcall.ok /\ Unwritten
                     /\ Len(ErrorStream) = 1
                     /\ ErrorStream[1].what = "has wrong length"
                     /\ ErrorStream[1].elements = entry
                     /\ ErrorStream[1].n = Len(entry)
                     /\ ErrorStream[1].size = size
                ELSE ElementsFit(kind, entry) =>
                        /\ ~aborted /\ pcall.ok /\ ErrorStream = << >>
                        /\ \A i \in 1..size : to_string(pcall.val[i]) = entry[i]

\* an IntVect was read from an entry of four elements
C13_Witness ==
    /\ ReadVector("IntVect")
    /\ Len(inputs.pp[TheKey]) = 4
    /\ aborted /\ Unwritten
    /\ ErrorStream[1].n = 4 /\ ErrorStream[1].size = 3

\* the last call was one of the two functions with an alternative table
CalledAlt == pcall.fn \in {"queryWithParserAlt", "getWithParserAlt"}

\* the last call returned the value of the key in table
FoundIn(table) ==
    pcall.ok => /\ ~aborted
                /\ pcall.fn = "queryWithParserAlt" => pcall.ret
                /\ IsParsedFrom(pcall.kind, pcall.val, table[TheKey])

(* C18: queryWithParserAlt reads the key from pp when pp has it and does
   not search pp_alt then; it reads the key from pp_alt only when pp does
   not have it; with the key in neither table it returns false and leaves
   the output unchanged, and getWithParserAlt then ends the run with the
   error of the key not found in pp *)
C18_AlternativeSecond ==
    /\ (CalledAlt /\ Present(inputs.pp)) =>
          pcall.consulted = <<"pp">> /\ FoundIn(inputs.pp)
    /\ (CalledAlt /\ ~Present(inputs.pp) /\ Present(inputs.pp_alt)) =>
          pcall.consulted = <<"pp", "pp_alt">> /\ FoundIn(inputs.pp_alt)
    /\ (Called("queryWithParserAlt") /\ ~Present(inputs.pp) /\ ~Present(inputs.pp_alt)) =>
          ~aborted /\ pcall.ok /\ ~pcall.ret /\ Unwritten /\ ErrorStream = << >>
    /\ (Called("getWithParserAlt") /\ ~Present(inputs.pp) /\ ~Present(inputs.pp_alt)) =>
          FatalWith(NotFound("pp", TheKey)) /\ Unwritten

\* both tables had the key, with different values, and the value of pp was
\* returned
C18_Witness ==
    /\ Called("queryWithParserAlt") /\ pcall.ok /\ pcall.ret
    /\ Present(inputs.pp) /\ Present(inputs.pp_alt)
    /\ inputs.pp[TheKey] # inputs.pp_alt[TheKey]
    /\ Len(inputs.pp[TheKey]) = Len(inputs.pp_alt[TheKey])
    /\ IsParsedFrom(pcall.kind, pcall.val, inputs.pp[TheKey])

-----------------------------------------------------------------------------
(* The density table of a plasma *)

Positions == 0..MaxPos

\* the density function string of the table entry at position k
DensityString(k) == <<"n", "\n">> \o to_string(k) \o <<"\t", "*", "x">>

(* makeFunctionWithParser: line breaks and tabs of the string become spaces *)
clean_str(func_str) ==
    [i \in 1..Len(func_str) |->
        IF func_str[i] \in {"\n", "\r", "\t"} THEN " " ELSE func_str[i]]

makeFunctionWithParser(func_str) == clean_str(func_str)

InitDensity ==
    /\ IdleP /\ IdleC /\ IdleF /\ IdleD /\ IdleM /\ IdleA /\ IdleT /\ IdleS /\ IdleX
    /\ m_use_density_table \in BOOLEAN
    /\ \E keys \in SUBSET Positions :
          /\ IF m_use_density_table THEN Cardinality(keys) >= 2 ELSE keys = {}
          /\ m_density_table = [k \in keys |-> DensityString(k)]
    /\ m_density_func = makeFunctionWithParser(<<"n", "0">>)
    /\ pos_z = 0

\* the keys of the table not above pos
KeysUpTo(table, pos) == {k \in DOMAIN table : k <= pos}

Greatest(keys) == CHOOSE k \in keys : \A j \in keys : j <= k
Least(keys) == CHOOSE k \in keys : \A j \in keys : k <= j

\* the entry at the first key not below pos, the last entry if there is none
EntryFor_upper(table, pos) ==
    IF \E k \in DOMAIN table : k >= pos
    THEN Least({k \in DOMAIN table : k >= pos})
    ELSE Greatest(DOMAIN table)

\* the entry in effect at pos: the nearest key not above pos, the first
\* entry before the table starts
EntryFor(table, pos) ==
    IF KeysUpTo(table, pos) # {} THEN Greatest(KeysUpTo(table, pos))
    ELSE Least(DOMAIN table)

(* PlasmaParticleContainer::UpdateDensityFunction(pos_z) *)
UpdateDensityFunction(pos) ==
    /\ pos_z' = pos
    /\ m_density_func' =
          IF m_use_density_table
          THEN makeFunctionWithParser(m_density_table[EntryFor(m_density_table, pos)])
          ELSE m_density_func
    /\ UNCHANGED <<notn, m_use_density_table, m_density_table>>

NextDensity == \E pos \in (-1)..(MaxPos + 1) : UpdateDensityFunction(pos)

SpecDensity == InitDensity /\ [][NextDensity]_vars

\* the function in effect is the expression of the entry at key k
InEffect(k) ==
    /\ Len(m_density_func) = Len(m_density_table[k])
    /\ \A i \in 1..Len(m_density_func) :
          \/ m_density_func[i] = m_density_table[k][i]
          \/ (m_density_func[i] = " " /\ m_density_table[k][i] \in {"\n", "\r", "\t"})

\* UpdateDensityFunction has been called with a table in use
Updated == m_use_density_table /\ m_density_func # makeFunctionWithParser(<<"n", "0">>)

(* C14: with a density table, after UpdateDensityFunction(pos_z) for a
   position between two keys of the table the function in effect is the
   expression of exactly one entry, the one at the nearest lower key;
   at a key, it is the expression of an entry of the table *)
C14_NearestLowerEntry ==
    Updated =>
        /\ \A a \in DOMAIN m_density_table, b \in DOMAIN m_density_table :
              (a < pos_z /\ pos_z < b /\ ~\E k \in DOMAIN m_density_table : a < k /\ k < b)
                  => /\ InEffect(a)
                     /\ \A k \in DOMAIN m_density_table \ {a} : ~InEffect(k)
        /\ pos_z \in DOMAIN m_density_table =>
              \E k \in DOMAIN m_density_table : InEffect(k)

\* a position strictly between two keys that are not neighbours on the grid
C14_Witness ==
    /\ Updated
    /\ \E a \in DOMAIN m_density_table, b \in DOMAIN m_density_table :
          /\ a < pos_z /\ pos_z < b /\ b - a > 2
          /\ InEffect(a) /\ ~InEffect(b)

-----------------------------------------------------------------------------
(* The adaptive time step *)

TimeSteps == 1..MaxDt

\* m_dt_max unset: infinity
Infinity == MaxDt + 1

InitTimeStep ==
    /\ IdleP /\ IdleC /\ IdleF /\ IdleD /\ IdleM /\ IdleA /\ IdleN /\ IdleS /\ IdleX
    /\ \E user_dt \in TimeSteps : dt = [r \in Ranks |-> user_dt]
    /\ m_dt_max \in TimeSteps \cup {Infinity}
    /\ handed = [r \in Ranks |-> FALSE]
    /\ tcall = [op |-> "none", rank |-> 0, wanted |-> 0]

Min(a, b) == IF a < b THEN a ELSE b

\* the upper bound of the time step
BoundByMax_unbounded(new_dt, dt_max) == new_dt

BoundByMax(new_dt, dt_max) == Min(new_dt, dt_max)

(* CalculateFromMinUz on rank r: wanted is the step the betatron period of
   the slowest particles asks for; below the momentum threshold the step is
   not decreased. The first step is computed on the head rank *)
CalculateFromMinUz(r, wanted, below_threshold) ==
    /\ handed[r] \/ r = HeadRankID
    /\ LET new_dt == BoundByMax(wanted, m_dt_max)
       IN  dt' = [dt EXCEPT ![r] =
                     IF handed[r] /\ below_threshold /\ new_dt < dt[r] THEN dt[r] ELSE new_dt]
    /\ handed' = [handed EXCEPT ![r] = TRUE]
    /\ tcall' = [op |-> "CalculateFromMinUz", rank |-> r, wanted |-> wanted]
    /\ UNCHANGED <<nott, m_dt_max>>

(* CalculateFromDensity on rank r: the step is reduced to the one that
   keeps the phase advance within the tolerance *)
CalculateFromDensity(r, wanted) ==
    /\ handed[r]
    /\ dt' = [dt EXCEPT ![r] = BoundByMax(Min(dt[r], wanted), m_dt_max)]
    /\ tcall' = [op |-> "CalculateFromDensity", rank |-> r, wanted |-> wanted]
    /\ UNCHANGED <<nott, m_dt_max, handed>>

(* BroadcastTimeStep: the first step of the head rank goes to every rank *)
BroadcastTimeStep ==
    /\ handed[HeadRankID]
    /\ \E r \in Ranks : ~handed[r]
    /\ dt' = [r \in Ranks |-> dt[HeadRankID]]
    /\ handed' = [r \in Ranks |-> TRUE]
    /\ tcall' = [op |-> "BroadcastTimeStep", rank |-> HeadRankID, wanted |-> dt[HeadRankID]]
    /\ UNCHANGED <<nott, m_dt_max>>

NextTimeStep ==
    \/ \E r \in Ranks, wanted \in TimeSteps, below \in BOOLEAN :
          CalculateFromMinUz(r, wanted, below)
    \/ \E r \in Ranks, wanted \in TimeSteps : CalculateFromDensity(r, wanted)
    \/ BroadcastTimeStep

SpecTimeStep == InitTimeStep /\ [][NextTimeStep]_vars

(* C15: after any sequence of CalculateFromMinUz, CalculateFromDensity and
   BroadcastTimeStep the time step handed to the driver of a rank is never
   above m_dt_max *)
C15_TimeStepBounded ==
    \A r \in Ranks : handed[r] => dt[r] <= m_dt_max

\* a rank that received its step by broadcast asked for a larger step than
\* m_dt_max and got m_dt_max
C15_Witness ==
    /\ tcall.op = "CalculateFromMinUz" /\ tcall.rank # HeadRankID
    /\ tcall.wanted > m_dt_max
    /\ dt[tcall.rank] = m_dt_max
    /\ \A r \in Ranks : handed[r]

-----------------------------------------------------------------------------
(* SALAME: the beam loading sub-iteration of a slice *)

SalameConfigs ==
    [m_salame_n_iter : 1..MaxIter,
     m_salame_relative_tolerance : 1..MaxErr]

InitSalame ==
    /\ IdleP /\ IdleC /\ IdleF /\ IdleD /\ IdleM /\ IdleA /\ IdleN /\ IdleT /\ IdleX
    /\ salame \in SalameConfigs
    /\ sphase = "slice"
    /\ salame_slice = HeadSlice
    /\ salame_iter = 0
    /\ salame_errs = << >>
    /\ m_salame_overloaded = FALSE

(* the slice reaches the SALAME beam *)
BeginSalame ==
    /\ sphase = "slice"
    /\ sphase' = "salame"
    /\ salame_iter' = 0
    /\ salame_errs' = << >>
    /\ UNCHANGED <<nots, salame, salame_slice, m_salame_overloaded>>

SalameCondition_pastcap(cfg, it, errors) ==
    /\ it <= cfg.m_salame_n_iter
    /\ IF it = 0 THEN TRUE ELSE ~(errors[it] < cfg.m_salame_relative_tolerance)

\* another iteration is made: the cap is not reached and the target is not met
SalameCondition(cfg, it, errors) ==
    /\ it < cfg.m_salame_n_iter
    /\ IF it = 0 THEN TRUE ELSE ~(errors[it] < cfg.m_salame_relative_tolerance)

(* one iteration: the weight of the beam is adjusted, Ez is solved again and
   compared with the target; a beam that cannot carry the weight is flagged *)
SalameIterate(err, overloaded) ==
    /\ sphase = "salame"
    /\ SalameCondition(salame, salame_iter, salame_errs)
    /\ salame_iter' = salame_iter + 1
    /\ salame_errs' = Append(salame_errs, err)
    /\ m_salame_overloaded' = (m_salame_overloaded \/ overloaded)
    /\ UNCHANGED <<nots, salame, sphase, salame_slice>>

(* the sub-iteration ends and the slice goes on *)
EndSalame ==
    /\ sphase = "salame"
    /\ ~SalameCondition(salame, salame_iter, salame_errs)
    /\ sphase' = "done"
    /\ UNCHANGED <<nots, salame, salame_slice, salame_iter, salame_errs, m_salame_overloaded>>

(* the next slice of the step *)
SalameNextSlice ==
    /\ sphase = "done"
    /\ salame_slice > 0
    /\ salame_slice' = salame_slice - 1
    /\ sphase' = "slice"
    /\ UNCHANGED <<nots, salame, salame_iter, salame_errs, m_salame_overloaded>>

NextSalame ==
    \/ BeginSalame
    \/ \E err \in Errors, overloaded \in BOOLEAN : SalameIterate(err, overloaded)
    \/ EndSalame
    \/ SalameNextSlice

SpecSalame == InitSalame /\ [][NextSalame]_vars /\ WF_vars(NextSalame)

InSalame == sphase = "salame"

\* iteration k of this slice met the relative tolerance
TargetMet(k) == salame_errs[k] < salame.m_salame_relative_tolerance

\* never more iterations than the cap, one error per iteration
SalameBounded ==
    InSalame =>
        /\ salame_iter <= salame.m_salame_n_iter
        /\ Len(salame_errs) = salame_iter

\* the sub-iteration is left at the cap or with the target met, and the
\* run goes on with the same slice
SalameExit ==
    (InSalame /\ sphase' # "salame") =>
        /\ salame_iter = salame.m_salame_n_iter
           \/ (salame_iter >= 1 /\ TargetMet(salame_iter))
        /\ sphase' = "done" /\ salame_slice' = salame_slice /\ ~aborted'

\* an overloaded beam: the flag and nothing else
SalameOverload ==
    (InSalame /\ ~m_salame_overloaded /\ m_salame_overloaded') =>
        /\ ~aborted' /\ sphase' = "salame"
        /\ salame_iter' = salame_iter + 1

(* C16: the SALAME sub-iteration of a slice ends: it makes at most
   m_salame_n_iter iterations, it ends before the cap only when the relative
   tolerance is met, and an overloaded beam sets m_salame_overloaded and does
   not end the run *)
C16_SalameTerminates ==
    /\ []SalameBounded
    /\ [][SalameExit /\ SalameOverload]_vars
    /\ (InSalame ~> (sphase = "done"))

\* an overloaded beam went to the cap without meeting the target, the slice
\* went on
C16_Witness ==
    /\ sphase = "done" /\ m_salame_overloaded /\ ~aborted
    /\ salame_iter = salame.m_salame_n_iter /\ salame_iter > 1
    /\ \A k \in 1..salame_iter : ~TargetMet(k)

-----------------------------------------------------------------------------
(* AnyFFT: the plans of the laser solver and the order of their use *)

FFTType == {"C2C_2D_fwd", "C2C_2D_bkw", "C2R_2D", "R2C_2D", "R2R_2D", "C2R_1D_batched"}

\* the AnyFFT objects of MultiLaser and the transform each one makes
Plans == {"m_forward_fft", "m_backward_fft"}

PlanType(p) == IF p = "m_forward_fft" THEN "C2C_2D_fwd" ELSE "C2C_2D_bkw"

\* m_plan = nullptr
NoPlan == [initialized |-> FALSE, type |-> "none", nx |-> 0, ny |-> 0,
           buffers |-> FALSE, executed |-> 0]

InitFFT ==
    /\ IdleP /\ IdleC /\ IdleF /\ IdleD /\ IdleM /\ IdleA /\ IdleN /\ IdleT /\ IdleS
    /\ fft_lib = "none"
    /\ fft_size \in [nx : 1..NCell, ny : 1..NCell]
    /\ plans = [p \in Plans |-> NoPlan]

(* AnyFFT::setup, before any FFT plan is initialized *)
setup ==
    /\ fft_lib = "none"
    /\ fft_lib' = "setup"
    /\ UNCHANGED <<notx, fft_size, plans>>

(* AnyFFT::Initialize: makes the plan of the object *)
Initialize(p, type, nx, ny) ==
    /\ fft_lib = "setup"
    /\ type \in FFTType
    /\ ~plans[p].initialized
    /\ plans' = [plans EXCEPT ![p] = [NoPlan EXCEPT !.initialized = TRUE, !.type = type,
                                                     !.nx = nx, !.ny = ny]]
    /\ UNCHANGED <<notx, fft_lib, fft_size>>

\* SetBuffers has to be called after Initialize
CanSetBuffers(plan) == plan.initialized

(* AnyFFT::SetBuffers: input, output and work area of the plan *)
SetBuffers(p) ==
    /\ fft_lib = "setup"
    /\ CanSetBuffers(plans[p]) /\ ~plans[p].buffers
    /\ plans' = [plans EXCEPT ![p].buffers = TRUE]
    /\ UNCHANGED <<notx, fft_lib, fft_size>>

CanExecute_initialized(plan) == plan.initialized

\* SetBuffers has to be called before Execute
CanExecute(plan) == plan.initialized /\ plan.buffers

(* AnyFFT::Execute in MultiLaser::AdvanceSliceFFT: the forward transform,
   then the backward transform *)
Execute(p) ==
    /\ fft_lib = "setup"
    /\ CanExecute(plans[p])
    /\ plans[p].executed < MaxExec
    /\ IF p = "m_forward_fft"
       THEN plans[p].executed = plans["m_backward_fft"].executed
       ELSE plans[p].executed < plans["m_forward_fft"].executed
    /\ plans' = [plans EXCEPT ![p].executed = @ + 1]
    /\ UNCHANGED <<notx, fft_lib, fft_size>>

(* AnyFFT::cleanup in the destructor of Hipace, at the end of the program *)
cleanup ==
    /\ fft_lib = "setup"
    /\ plans["m_backward_fft"].executed = plans["m_forward_fft"].executed
    /\ fft_lib' = "cleanup"
    /\ UNCHANGED <<notx, fft_size, plans>>

NextFFT ==
    \/ setup
    \/ \E p \in Plans : Initialize(p, PlanType(p), fft_size.nx, fft_size.ny)
    \/ \E p \in Plans : SetBuffers(p)
    \/ \E p \in Plans : Execute(p)
    \/ cleanup

SpecFFT == InitFFT /\ [][NextFFT]_vars

\* a plan exists only after setup, has buffers only after Initialize and
\* has made transforms only with buffers
PlanOrder ==
    \A p \in Plans :
        /\ plans[p].initialized => fft_lib # "none"
        /\ plans[p].buffers => plans[p].initialized
        /\ plans[p].executed > 0 => plans[p].buffers

\* each call finds the state the call before it has to leave
CallOrder ==
    \A p \in Plans :
        /\ (~plans[p].initialized /\ plans'[p].initialized) => fft_lib = "setup"
        /\ (~plans[p].buffers /\ plans'[p].buffers) => plans[p].initialized
        /\ plans'[p].executed # plans[p].executed =>
              /\ plans[p].initialized /\ plans[p].buffers
              /\ fft_lib = "setup" /\ fft_lib' = "setup"

\* nothing is done with a plan after cleanup, and cleanup is not undone
CleanupLast ==
    fft_lib = "cleanup" => (plans' = plans /\ fft_lib' = "cleanup")

(* C17: setup comes before the Initialize of any plan, the Initialize of a
   plan before its SetBuffers, its SetBuffers before each of its Execute,
   cleanup after the last Execute; no Execute on a plan without buffers *)
C17_FFTCallOrder ==
    /\ []PlanOrder
    /\ [][CallOrder /\ CleanupLast]_vars

\* both plans made transforms and the library was cleaned up after them
C17_Witness ==
    /\ fft_lib = "cleanup"
    /\ \A p \in Plans : plans[p].executed > 1 /\ plans[p].type = PlanType(p)

-----------------------------------------------------------------------------
(* String parameters: fillWithParser(pp, str, std::string& val, ...) *)

\* the characters that stand for the escaped braces
Char1 == "char(1)"
Char2 == "char(2)"

\* pat is in s at position i
OccursAt(s, pat, i) ==
    i + Len(pat) - 1 <= Len(s) /\ SubSeq(s, i, i + Len(pat) - 1) = pat

\* std::string::find(pat, pos) and rfind(pat); positions from 1, npos is 0
find(s, pat, pos) ==
    LET hits == {i \in pos..Len(s) : OccursAt(s, pat, i)}
    IN  IF hits = {} THEN 0 ELSE Least(hits)

rfind(s, pat) ==
    LET hits == {i \in 1..Len(s) : OccursAt(s, pat, i)}
    IN  IF hits = {} THEN 0 ELSE Greatest(hits)

\* std::string::replace(pos, n, r)
replace(s, pos, n, r) ==
    SubSeq(s, 1, pos - 1) \o r \o SubSeq(s, pos + n, Len(s))

\* while ((pos = loc_str.find(pat)) != npos) loc_str.replace(pos, n, r)
RECURSIVE ReplaceFromLeft(_, _, _)
ReplaceFromLeft(loc_str, pat, r) ==
    LET pos == find(loc_str, pat, 1)
    IN  IF pos = 0 THEN loc_str
        ELSE ReplaceFromLeft(replace(loc_str, pos, Len(pat), r), pat, r)

\* while ((pos = loc_str.rfind(pat)) != npos) loc_str.replace(pos, n, r)
RECURSIVE ReplaceFromRight(_, _, _)
ReplaceFromRight(loc_str, pat, r) ==
    LET pos == rfind(loc_str, pat)
    IN  IF pos = 0 THEN loc_str
        ELSE ReplaceFromRight(replace(loc_str, pos, Len(pat), r), pat, r)

\* the two loops that remove leading and trailing spaces
RECURSIVE TrimLeading(_, _, _)
TrimLeading(loc_str, pos_start_trim, pos_count_trim) ==
    IF loc_str[pos_start_trim] = " " /\ pos_count_trim > 0
    THEN TrimLeading(loc_str, pos_start_trim + 1, pos_count_trim - 1)
    ELSE [start |-> pos_start_trim, count |-> pos_count_trim]

RECURSIVE TrimTrailing(_, _, _)
TrimTrailing(loc_str, pos_start_trim, pos_count_trim) ==
    IF loc_str[pos_start_trim + pos_count_trim - 1] = " " /\ pos_count_trim > 0
    THEN TrimTrailing(loc_str, pos_start_trim, pos_count_trim - 1)
    ELSE [start |-> pos_start_trim, count |-> pos_count_trim]

\* the default precision of a stream
StreamPrecision == 6

\* the digits of a mantissa without its trailing zeros
RECURSIVE StripZeros(_)
StripZeros(digits) ==
    IF Len(digits) > 1 /\ digits[Len(digits)] = "0"
    THEN StripZeros(SubSeq(digits, 1, Len(digits) - 1))
    ELSE digits

(* operator<< of a whole number v >= 0 held in a double: up to
   StreamPrecision digits as they are, more digits rounded to
   StreamPrecision significant digits in scientific notation *)
stream_magnitude(v) ==
    IF v < 10 ^ StreamPrecision THEN NatStr(v)
    ELSE LET scale == 10 ^ (Len(NatStr(v)) - StreamPrecision)
             q == v \div scale
             r == v % scale
             up == 2 * r > scale \/ (2 * r = scale /\ q % 2 = 1)
             rounded == IF up THEN q + 1 ELSE q
             carry == rounded = 10 ^ StreamPrecision
             mantissa == StripZeros(NatStr(IF carry THEN rounded \div 10 ELSE rounded))
             exponent == NatStr(Len(NatStr(v)) - 1 + (IF carry THEN 1 ELSE 0))
         IN  <<mantissa[1]>>
             \o (IF Len(mantissa) > 1 THEN <<".">> \o Tail(mantissa) ELSE << >>)
             \o <<"e", "+">>
             \o (IF Len(exponent) < 2 THEN <<"0">> ELSE << >>) \o exponent

\* ss << parse_val
stream_double(v) == IF v < 0 THEN <<"-">> \o stream_magnitude(-v) ELSE stream_magnitude(v)

\* the constants of the input file: a value with escaped braces around an
\* expression, one that names itself, two that name each other, and one
\* that names another one twice
my_constants ==
    [name \in {<<"c">>, <<"r">>, <<"p">>, <<"q">>, <<"d">>} |->
        CASE name = <<"c">> -> <<"{", "{", "{", "7", "}", "}", "}">>
          [] name = <<"r">> -> <<"{", "r", "}">>
          [] name = <<"p">> -> <<"{", " ", "q", "}">>
          [] name = <<"q">> -> <<"{", "p", "}">>
          [] name = <<"d">> -> <<"{", "c", "}", "{", "c", "}">>]

\* the partly expanded string in the message
ReportedInput_local(str, loc_str) == loc_str

\* the string the message of an unclosed brace shows: << str
ReportedInput(str, loc_str) == str

UnclosedBrace(str) == [what |-> "unclosed brace!", input |-> str]
\* the message shows the expression in the place of the symbol
RecursiveSymbol_expression(str, symbol) ==
    [what |-> "contains recursive symbol", input |-> str, symbol |-> str]

RecursiveSymbol(str, symbol) == [what |-> "contains recursive symbol", input |-> str, symbol |-> symbol]

\* what a call on a string does: done, the output, the error written, and
\* the static set of the symbols under expansion as the call leaves it
Expanded(v, symbols) == [ok |-> TRUE, val |-> v, err |-> << >>, symbols |-> symbols]
Stopped(val, e, symbols) == [ok |-> FALSE, val |-> val, err |-> <<e>>, symbols |-> symbols]

\* recursive_symbols.insert(parse_string)
InsertSymbol(symbols, parse_string) == symbols \cup {parse_string}

\* a symbol that stays in the set
EraseSymbol_kept(symbols, parse_string) == symbols

\* recursive_symbols.erase(parse_string)
EraseSymbol(symbols, parse_string) == symbols \ {parse_string}

\* replace {{ and }} with char(1) and char(2)
EscapeTransform(str) ==
    ReplaceFromRight(ReplaceFromLeft(str, <<"{", "{">>, <<Char1>>), <<"}", "}">>, <<Char2>>)

RECURSIVE fillWithParser_string(_, _, _, _)
RECURSIVE ReplaceExpressions(_, _, _, _)
RECURSIVE ExpandLast(_, _, _, _)

(* The constant parse_string, whose value the recursive call has expanded
   into inner, replaces the n characters of loc_str from pos on *)
Substituted(inner, loc_str, pos, n, val, parse_string) ==
    IF ~inner.ok THEN Stopped(val, inner.err[1], inner.symbols)
    ELSE Expanded(replace(loc_str, pos, n, inner.val),
                  EraseSymbol(inner.symbols, parse_string))

(* One iteration of while ((pos = loc_str.rfind("{")) != npos): the last
   expression of loc_str is replaced; str is the input of the call, val its
   output, symbols the static set *)
ExpandLast(loc_str, str, val, symbols) ==
    LET pos == rfind(loc_str, <<"{">>)
        pos_end == find(loc_str, <<"}">>, pos)
        lead == TrimLeading(loc_str, pos + 1, pos_end - pos - 1)
        trim == TrimTrailing(loc_str, lead.start, lead.count)
        parse_string == SubSeq(loc_str, trim.start, trim.start + trim.count - 1)
        number == fillWithParser_double(parse_string, 0)
    IN  IF pos_end = 0
        THEN Stopped(val, UnclosedBrace(ReportedInput(str, loc_str)), symbols)
        ELSE IF trim.count = 0
        THEN Expanded(replace(loc_str, pos, pos_end - pos + 1, << >>), symbols)
        ELSE IF parse_string \in DOMAIN my_constants
        THEN IF parse_string \in symbols
             THEN Stopped(val, RecursiveSymbol(str, parse_string), symbols)
             ELSE Substituted(
                      fillWithParser_string(my_constants[parse_string], << >>, FALSE,
                                            InsertSymbol(symbols, parse_string)),
                      loc_str, pos, pos_end - pos + 1, val, parse_string)
        ELSE IF ~number.ok THEN Stopped(val, number.err[1], symbols)
        ELSE Expanded(replace(loc_str, pos, pos_end - pos + 1, stream_double(number.val)),
                      symbols)

\* the loop goes on: loc_str.rfind("{") != npos
LoopGoesOn(loc_str) == rfind(loc_str, <<"{">>) # 0

\* after an iteration that left r: the loop again, unless the run has ended
NextIteration(r, str, val) ==
    IF ~r.ok THEN r ELSE ReplaceExpressions(r.val, str, val, r.symbols)

(* while ((pos = loc_str.rfind("{")) != npos) *)
ReplaceExpressions(loc_str, str, val, symbols) ==
    IF ~LoopGoesOn(loc_str) THEN Expanded(loc_str, symbols)
    ELSE NextIteration(ExpandLast(loc_str, str, val, symbols), str, val)

\* the escapes transformed back at every depth of the recursion
EscapeBacktransform_always(loc_str, do_escape_backtransform) ==
    ReplaceFromRight(ReplaceFromLeft(loc_str, <<Char1>>, <<"{">>), <<Char2>>, <<"}">>)

\* if (do_escape_backtransform): char(1) and char(2) become { and }
EscapeBacktransform(loc_str, do_escape_backtransform) ==
    IF do_escape_backtransform
    THEN ReplaceFromRight(ReplaceFromLeft(loc_str, <<Char1>>, <<"{">>), <<Char2>>, <<"}">>)
    ELSE loc_str

\* after the loop that left r: the escapes are transformed back, val = loc_str
AfterLoop(r, do_escape_backtransform) ==
    IF ~r.ok THEN r
    ELSE Expanded(EscapeBacktransform(r.val, do_escape_backtransform), r.symbols)

(* fillWithParser(pp, str, std::string& val, do_escape_backtransform) *)
fillWithParser_string(str, val, do_escape_backtransform, symbols) ==
    AfterLoop(ReplaceExpressions(EscapeTransform(str), str, val, symbols),
              do_escape_backtransform)

\* the pieces a string parameter is written from: text is what the input
\* file holds, means what the piece stands for
Pieces ==
    {[kind |-> "literal", text |-> <<"a">>, means |-> <<"a">>],
     [kind |-> "escape", text |-> <<"{", "{">>, means |-> <<"{">>],
     [kind |-> "escape", text |-> <<"}", "}">>, means |-> <<"}">>],
     [kind |-> "empty", text |-> <<"{", "}">>, means |-> << >>],
     [kind |-> "empty", text |-> <<"{", " ", "}">>, means |-> << >>],
     [kind |-> "number", text |-> <<"{", " ", "7", " ", "}">>, means |-> <<"7">>],
     [kind |-> "number", text |-> <<"{", "1", "2", "3", "4", "5", "6", "7", "}">>,
      means |-> <<"1", "2", "3", "4", "5", "6", "7">>],
     [kind |-> "constant", text |-> <<"{", "c", "}">>, means |-> <<"{", "7", "}">>],
     [kind |-> "constant", text |-> <<"{", "d", "}">>,
      means |-> <<"{", "7", "}", "{", "7", "}">>],
     [kind |-> "recursive", text |-> <<"{", "r", "}">>, means |-> << >>],
     [kind |-> "recursive", text |-> <<"{", "p", "}">>, means |-> << >>],
     [kind |-> "unclosed", text |-> <<"{", "a">>, means |-> << >>]}

RECURSIVE TextOf(_)
TextOf(pieces) ==
    IF pieces = << >> THEN << >> ELSE Head(pieces).text \o TextOf(Tail(pieces))

\* the output before the call
OldVal == <<"o", "l", "d">>

NoExpand == [fn |-> "none", again |-> FALSE, ok |-> TRUE, before |-> OldVal, val |-> OldVal]

InitExpand ==
    /\ IdleP /\ IdleC /\ IdleF /\ IdleD /\ IdleM /\ IdleN /\ IdleT /\ IdleS /\ IdleX
    /\ \E n \in 0..MaxPieces : \E pieces \in [1..n -> Pieces] :
          inputs = [pieces |-> pieces, str |-> TextOf(pieces)]
    /\ pcall = NoExpand
    /\ recursive_symbols = {}

(* fillWithParser(pp, str, val) of a string parameter, for the first time
   or again: val = loc_str at the end, the error and the end of the run
   otherwise *)
ExpandCall ==
    /\ ~aborted
    /\ \E r \in {fillWithParser_string(inputs.str, OldVal, TRUE, recursive_symbols)} :
           /\ pcall' = [fn |-> "fillWithParser", again |-> pcall.fn # "none", ok |-> r.ok,
                        before |-> OldVal, val |-> r.val]
           /\ recursive_symbols' = r.symbols
           /\ ErrorStream' = ErrorStream \o r.err
           /\ aborted' = ~r.ok
    /\ UNCHANGED <<nota, inputs, Comps, N_Comps, emplaced, looked>>

NextExpand == ExpandCall

SpecExpand == InitExpand /\ [][NextExpand]_vars

\* the constant a piece {name} names
NameOf(piece) == SubSeq(piece.text, 2, Len(piece.text) - 1)

\* every brace of the pieces is an escape or belongs to a closed expression
\* that can be evaluated
WellFormed(pieces) ==
    \A i \in 1..Len(pieces) : pieces[i].kind \notin {"recursive", "unclosed"}

\* text is a number in scientific notation: d[.ddd]e+dd
IsScientific(text) ==
    LET e == find(text, <<"e", "+">>, 1)
    IN  /\ e > 1
        /\ IsNat(SubSeq(text, e + 2, Len(text)))
        /\ IsDigit(text[1])
        /\ e = 2 \/ (e > 3 /\ text[2] = "." /\ IsNat(SubSeq(text, 3, e - 1)))

ScientificValue(text) ==
    LET e == find(text, <<"e", "+">>, 1)
        fraction == IF e = 2 THEN << >> ELSE SubSeq(text, 3, e - 1)
        exponent == NatVal(SubSeq(text, e + 2, Len(text)))
    IN  IF exponent >= Len(fraction)
        THEN NatVal(<<text[1]>> \o fraction) * 10 ^ (exponent - Len(fraction))
        ELSE -1

\* text is a way of writing the number v
Writes(text, v) ==
    \/ IsNat(text) /\ NatVal(text) = v
    \/ IsScientific(text) /\ ScientificValue(text) = v

\* result is made of what the pieces stand for, one after the other: a
\* number piece by a text that writes its value, any other piece by its text
RECURSIVE Renders(_, _)
Renders(result, pieces) ==
    IF pieces = << >> THEN result = << >>
    ELSE LET piece == Head(pieces)
             m == Len(piece.means)
         IN  IF piece.kind = "number"
             THEN \E k \in 1..Len(result) :
                     /\ Writes(SubSeq(result, 1, k), NatVal(piece.means))
                     /\ Renders(SubSeq(result, k + 1, Len(result)), Tail(pieces))
             ELSE /\ m <= Len(result)
                  /\ SubSeq(result, 1, m) = piece.means
                  /\ Renders(SubSeq(result, m + 1, Len(result)), Tail(pieces))

\* no expression of the pieces has more digits than the stream prints
WithinPrecision(pieces) ==
    \A i \in 1..Len(pieces) :
        pieces[i].kind = "number" => Len(pieces[i].means) <= StreamPrecision

(* C20: in a string parameter an escaped pair of braces gives one literal
   brace and never opens or closes an expression, also inside a constant of
   my_constants that is substituted; every expression in braces is replaced
   by its value, an empty pair of braces by the empty string *)
C20_BracesExpanded ==
    (Called("fillWithParser") /\ WellFormed(inputs.pieces)) =>
        /\ pcall.ok /\ ~aborted
        /\ Renders(pcall.val, inputs.pieces)

\* the same for expressions of at most StreamPrecision digits
ExpandedWithinPrecision ==
    (Called("fillWithParser") /\ WellFormed(inputs.pieces) /\ WithinPrecision(inputs.pieces)) =>
        /\ pcall.ok /\ ~aborted
        /\ Renders(pcall.val, inputs.pieces)

\* a string that is not well formed ends the run, the output untouched
ExpansionFatal ==
    (Called("fillWithParser") /\ ~WellFormed(inputs.pieces)) =>
        aborted /\ ~pcall.ok /\ pcall.val = pcall.before /\ Len(ErrorStream) = 1

\* an escaped brace before an expression, and a constant with escapes
C20_Witness ==
    /\ Called("fillWithParser") /\ pcall.ok
    /\ Len(inputs.pieces) = 3
    /\ inputs.pieces[1].text = <<"{", "{">>
    /\ inputs.pieces[2].text = <<"{", " ", "7", " ", "}">>
    /\ NameOf(inputs.pieces[3]) = <<"c">>
    /\ pcall.val = <<"{", "7", "{", "7", "}">>

\* the last piece with a brace that is never closed, 0 if there is none
LastUnclosed(pieces) ==
    LET at_ == {i \in 1..Len(pieces) : pieces[i].kind = "unclosed"}
    IN  IF at_ = {} THEN 0 ELSE Greatest(at_)

\* an expression right of the last unclosed brace ends the run by itself
FailsBefore(pieces) ==
    \E i \in (LastUnclosed(pieces) + 1)..Len(pieces) : pieces[i].kind = "recursive"

\* the run has ended in the call, nothing was returned
ExpansionDied == aborted /\ ~pcall.ok /\ pcall.val = pcall.before /\ Len(ErrorStream) = 1

(* C21 as it is written: a string with an unescaped brace that is never
   closed ends the run with the message of the unclosed brace showing the
   input, and no partly expanded string is returned *)
C21_UnclosedAlwaysReported ==
    (Called("fillWithParser") /\ LastUnclosed(inputs.pieces) > 0) =>
        ExpansionDied /\ ErrorStream = <<UnclosedBrace(inputs.str)>>

(* C21: a string with an unescaped brace that is never closed ends the run
   and no partly expanded string is returned; the message is the one of the
   unclosed brace, showing the input of the call, unless an expression
   right of that brace has ended the run with its own error before *)
C21_UnclosedBraceFatal ==
    (Called("fillWithParser") /\ LastUnclosed(inputs.pieces) > 0) =>
        /\ ExpansionDied
        /\ ~FailsBefore(inputs.pieces) => ErrorStream = <<UnclosedBrace(inputs.str)>>
        /\ FailsBefore(inputs.pieces) => ErrorStream[1].what = "contains recursive symbol"

\* an expression right of the unclosed brace was expanded before the brace
\* was found, and the message shows the input as it was written
C21_Witness ==
    /\ Called("fillWithParser") /\ aborted
    /\ Len(inputs.pieces) = 2
    /\ inputs.pieces[1].kind = "unclosed" /\ inputs.pieces[2].kind = "number"
    /\ ErrorStream = <<UnclosedBrace(inputs.str)>>
    /\ pcall.val = OldVal

\* the last piece that names a constant which names itself, 0 if none
LastRecursive(pieces) ==
    LET at_ == {i \in 1..Len(pieces) : pieces[i].kind = "recursive"}
    IN  IF at_ = {} THEN 0 ELSE Greatest(at_)

\* the message for the constant name found again while it is expanded: the
\* expression that holds the reference, and the symbol
FoundAgain(name) ==
    [what |-> "contains recursive symbol", input |-> <<"{">> \o name \o <<"}">>,
     symbol |-> name]

(* C22 as it is written: a string with a reference to a constant that names
   itself, directly or through other constants, ends the run with the
   message that names the recursive symbol *)
C22_RecursionAlwaysReported ==
    (Called("fillWithParser") /\ LastRecursive(inputs.pieces) > 0) =>
        /\ ExpansionDied
        /\ ErrorStream = <<FoundAgain(NameOf(inputs.pieces[LastRecursive(inputs.pieces)]))>>

(* C22: a string with a reference to a constant that names itself, directly
   or through other constants, ends the run; the message names the
   recursive symbol unless a brace right of the reference is never closed,
   which ends the run before the reference is expanded *)
C22_RecursionFatal ==
    (Called("fillWithParser") /\ LastRecursive(inputs.pieces) > 0) =>
        /\ ExpansionDied
        /\ LastUnclosed(inputs.pieces) < LastRecursive(inputs.pieces) =>
              ErrorStream = <<FoundAgain(NameOf(inputs.pieces[LastRecursive(inputs.pieces)]))>>
        /\ LastUnclosed(inputs.pieces) > LastRecursive(inputs.pieces) =>
              ErrorStream = <<UnclosedBrace(inputs.str)>>

\* two constants that name each other: the one met first is found again
C22_Witness ==
    /\ Called("fillWithParser") /\ aborted /\ pcall.val = OldVal
    /\ Len(inputs.pieces) = 2
    /\ inputs.pieces[1].kind = "constant" /\ NameOf(inputs.pieces[2]) = <<"p">>
    /\ ErrorStream[1].symbol = <<"p">> /\ ErrorStream[1].input = my_constants[<<"q">>]

(* C23: when a call of fillWithParser on a string returns, the static set
   recursive_symbols is empty again; a constant without a reference to
   itself that is named several times, in one string, in one constant or in
   successive calls, is expanded every time and never reported as recursive *)
C23_SymbolsErased ==
    /\ (Called("fillWithParser") /\ pcall.ok) => recursive_symbols = {}
    /\ (Called("fillWithParser") /\ WellFormed(inputs.pieces)) =>
          /\ pcall.ok /\ ~aborted /\ ErrorStream = << >>
          /\ WithinPrecision(inputs.pieces) => Renders(pcall.val, inputs.pieces)

\* the second call on a string that names one constant twice and a constant
\* that names it twice more
C23_Witness ==
    /\ Called("fillWithParser") /\ pcall.again /\ pcall.ok
    /\ Len(inputs.pieces) = 3
    /\ NameOf(inputs.pieces[1]) = <<"c">>
    /\ NameOf(inputs.pieces[2]) = <<"c">>
    /\ NameOf(inputs.pieces[3]) = <<"d">>
    /\ pcall.val = <<"{", "7", "}", "{", "7", "}", "{", "7", "}", "{", "7", "}">>
    /\ recursive_symbols = {}

-----------------------------------------------------------------------------
(* The loop of fillWithParser on a string, one iteration at a time *)

\* the pieces of the strings the loop is run on
LoopPieces ==
    {piece \in Pieces :
        \/ piece.kind \in {"literal", "constant", "unclosed"}
        \/ piece.text \in {<<"{", "{">>, <<"{", "}">>, <<"{", " ", "7", " ", "}">>,
                           <<"{", "r", "}">>}}

\* std::string loc_str = str
EnterLoop(str) == [fn |-> "fillWithParser", at |-> "start", loc_str |-> str, val |-> OldVal]

(* a call on a string parameter, or the call on the value of a constant
   that is made while the constant is expanded *)
InitLoop ==
    /\ IdleP /\ IdleC /\ IdleF /\ IdleD /\ IdleM /\ IdleN /\ IdleT /\ IdleS /\ IdleX
    /\ \/ /\ \E n \in 0..MaxPieces : \E pieces \in [1..n -> LoopPieces] :
                inputs = [pieces |-> pieces, str |-> TextOf(pieces),
                          do_escape_backtransform |-> TRUE]
          /\ recursive_symbols = {}
       \/ \E name \in DOMAIN my_constants :
             /\ inputs = [pieces |-> << >>, str |-> my_constants[name],
                          do_escape_backtransform |-> FALSE]
             /\ recursive_symbols = {name}
    /\ pcall = EnterLoop(inputs.str)

(* the two loops that replace {{ and }} *)
EscapeStep ==
    /\ pcall.at = "start"
    /\ pcall' = [pcall EXCEPT !.at = "loop", !.loc_str = EscapeTransform(pcall.loc_str)]
    /\ UNCHANGED <<nota, inputs, recursive_symbols, cvars>>

(* one iteration of the loop over the expressions *)
LoopIteration ==
    /\ pcall.at = "loop"
    /\ LoopGoesOn(pcall.loc_str)
    /\ \E r \in {ExpandLast(pcall.loc_str, inputs.str, pcall.val, recursive_symbols)} :
           /\ pcall' = IF r.ok THEN [pcall EXCEPT !.loc_str = r.val]
                       ELSE [pcall EXCEPT !.at = "died"]
           /\ recursive_symbols' = r.symbols
           /\ ErrorStream' = ErrorStream \o r.err
           /\ aborted' = ~r.ok
    /\ UNCHANGED <<nota, inputs, Comps, N_Comps, emplaced, looked>>

(* the end of the loop: the escapes are transformed back, val = loc_str *)
LoopEnd ==
    /\ pcall.at = "loop"
    /\ ~LoopGoesOn(pcall.loc_str)
    /\ \E out \in {EscapeBacktransform(pcall.loc_str, inputs.do_escape_backtransform)} :
           pcall' = [pcall EXCEPT !.at = "returned", !.loc_str = out, !.val = out]
    /\ UNCHANGED <<nota, inputs, recursive_symbols, cvars>>

NextLoop == EscapeStep \/ LoopIteration \/ LoopEnd

\* the call has not returned: this is when a step of NextLoop is enabled
LoopRuns == pcall.at \in {"start", "loop"}

(* the call is not stopped from outside: weak fairness of NextLoop, written
   with LoopRuns for ENABLED <<NextLoop>>_vars *)
LoopFair == []<>(~LoopRuns) \/ []<><<NextLoop>>_vars

SpecLoop == InitLoop /\ [][NextLoop]_vars /\ LoopFair

\* the braces left to expand
Braces(loc_str) == Cardinality({i \in 1..Len(loc_str) : loc_str[i] = "{"})

\* this step is an iteration after which the loop is still running
IterationStep == pcall.at = "loop" /\ pcall'.at = "loop" /\ pcall'.loc_str # pcall.loc_str

(* C24: the loop over the expressions ends for every string: an iteration
   takes one brace out of loc_str and puts none in, so the braces left to
   expand become fewer by one with each iteration *)
C24_LoopTerminates ==
    /\ [][IterationStep => Braces(pcall'.loc_str) = Braces(pcall.loc_str) - 1]_vars
    /\ [](pcall.at = "returned" => Braces(pcall.loc_str) = Braces(pcall.val))
    /\ (pcall.at = "loop" ~> pcall.at \in {"returned", "died"})

\* a constant that names another constant twice, empty braces and a number
\* were expanded in three iterations
C24_Witness ==
    /\ pcall.at = "returned"
    /\ Len(inputs.pieces) = 3 /\ Braces(inputs.str) = 3
    /\ NameOf(inputs.pieces[1]) = <<"d">>
    /\ inputs.pieces[2].kind = "empty"
    /\ inputs.pieces[3].kind = "number"
    /\ pcall.val = <<"{", "7", "}", "{", "7", "}", "7">>

-----------------------------------------------------------------------------
(* Fields::duplicate and Fields::add *)

(* The loop of the kernel of add at one cell:
   for n: array(i,j,c_idx_dst[n]) += array(i,j,c_idx_src[n]) *)
RECURSIVE add_comps(_, _, _)
add_comps(array, c_idx_dst, c_idx_src) ==
    IF c_idx_dst = << >> THEN array
    ELSE add_comps([array EXCEPT ![Head(c_idx_dst)] = @ + array[Head(c_idx_src)]],
                   Tail(c_idx_dst), Tail(c_idx_src))

(* Fields::duplicate once the indices are known: every cell of level lev *)
duplicate(slices, lev, c_idx_dst, c_idx_src) ==
    [slices EXCEPT ![lev] =
        [cell \in DOMAIN slices[lev] |->
            copy_comps(slices[lev][cell], c_idx_dst, c_idx_src)]]

(* Fields::add once the indices are known: every cell of level lev *)
add(slices, lev, c_idx_dst, c_idx_src) ==
    [slices EXCEPT ![lev] =
        [cell \in DOMAIN slices[lev] |->
            add_comps(slices[lev][cell], c_idx_dst, c_idx_src)]]

(* The lookups of duplicate and add: for each i,
   Comps[islice_src][comps_src[i]], then Comps[islice_dst][comps_dst[i]] *)
PairLookups(islice_dst, comps_dst, islice_src, comps_src) ==
    [k \in 1..(2 * Len(comps_dst)) |->
        IF k % 2 = 1
        THEN assert_map_index(Comps[islice_src], comps_src[(k + 1) \div 2])
        ELSE assert_map_index(Comps[islice_dst], comps_dst[k \div 2])]

\* the calls are made with name lists of equal length (template<int ncomps>)
NamePairs ==
    {pair \in CompLists \X CompLists : Len(pair[1]) = Len(pair[2])}

(* A call duplicate or add (lev, islice_dst, comps_dst, islice_src, comps_src) *)
PairCall(op, lev, islice_dst, comps_dst, islice_src, comps_src) ==
    LET looks == PairLookups(islice_dst, comps_dst, islice_src, comps_src)
        bad == FirstFailed(looks)
        c_idx_src == [i \in 1..Len(comps_src) |-> looks[2 * i - 1].idx]
        c_idx_dst == [i \in 1..Len(comps_dst) |-> looks[2 * i].idx]
    IN  /\ ~aborted
        /\ fop.op = "none"
        /\ fop' = [op |-> op, lev |-> lev,
                   islice_dst |-> islice_dst, comps_dst |-> comps_dst,
                   islice_src |-> islice_src, comps_src |-> comps_src,
                   before |-> m_slices]
        /\ IF bad = 0
           THEN /\ m_slices' = IF op = "duplicate"
                               THEN duplicate(m_slices, lev, c_idx_dst, c_idx_src)
                               ELSE add(m_slices, lev, c_idx_dst, c_idx_src)
                /\ UNCHANGED <<ErrorStream, aborted>>
           ELSE /\ ErrorStream' = ErrorStream \o looks[bad].err
                /\ aborted' = TRUE
                /\ UNCHANGED m_slices
        /\ UNCHANGED <<notf, trip, Comps, N_Comps, emplaced, looked>>

Duplicate(lev, islice_dst, comps_dst, islice_src, comps_src) ==
    PairCall("duplicate", lev, islice_dst, comps_dst, islice_src, comps_src)

Add(lev, islice_dst, comps_dst, islice_src, comps_src) ==
    PairCall("add", lev, islice_dst, comps_dst, islice_src, comps_src)

\* the slices as AllocData leaves them
InitCopy == InitFields

NextCopy ==
    \/ \E lev \in Levels, d \in ShiftRoles, s \in ShiftRoles, pair \in NamePairs :
          Duplicate(lev, d, pair[1], s, pair[2])
    \/ \E lev \in Levels, d \in ShiftRoles, s \in ShiftRoles, pair \in NamePairs :
          Add(lev, d, pair[1], s, pair[2])

SpecCopy == InitCopy /\ [][NextCopy]_vars

\* a call of duplicate or add has returned
PairsDone == fop.op \in {"duplicate", "add"} /\ ~aborted

\* the indices of the call in fop
DstIdx == [n \in 1..Len(fop.comps_dst) |-> Comps[fop.islice_dst][fop.comps_dst[n]]]
SrcIdx == [n \in 1..Len(fop.comps_src) |-> Comps[fop.islice_src][fop.comps_src[n]]]

\* a destination component is the source component of a later pair: the
\* index is the same only for the same name in the same slice role
Overlap == \E n, m \in 1..Len(DstIdx) : n < m /\ DstIdx[n] = SrcIdx[m]

(* what component c of a cell holds after the first k pairs, when each
   pair reads what the pairs before it have written *)
RECURSIVE InListOrder(_, _, _)
InListOrder(array, k, c) ==
    IF k = 0 THEN array[c]
    ELSE IF DstIdx[k] # c THEN InListOrder(array, k - 1, c)
    ELSE IF fop.op = "duplicate" THEN InListOrder(array, k - 1, SrcIdx[k])
    ELSE InListOrder(array, k - 1, c) + InListOrder(array, k - 1, SrcIdx[k])

RECURSIVE SumOver(_, _)
SumOver(array, cs) ==
    IF cs = << >> THEN 0 ELSE array[Head(cs)] + SumOver(array, Tail(cs))

\* the sources of the pairs whose destination is c, in list order
SourcesOf(c) ==
    LET F[k \in 0..Len(DstIdx)] ==
            IF k = 0 THEN << >>
            ELSE IF DstIdx[k] = c THEN Append(F[k - 1], SrcIdx[k]) ELSE F[k - 1]
    IN  F[Len(DstIdx)]

(* dst[n] = src[n] (or dst[n] += src[n]) for all n at once: every pair
   reads what the cell held before the call *)
Simultaneous(array) ==
    [c \in DOMAIN array |->
        LET from == SourcesOf(c)
        IN  IF from = << >> THEN array[c]
            ELSE IF fop.op = "duplicate" THEN array[from[Len(from)]]
            ELSE array[c] + SumOver(array, from)]

\* the call has given every cell of its level what the simultaneous
\* assignment gives
AsSimultaneous ==
    \A cell \in Cells :
        m_slices[fop.lev][cell] = Simultaneous(fop.before[fop.lev][cell])

\* the pairs were processed one after another in list order at every cell
AsInListOrder ==
    /\ \A cell \in Cells : \A c \in 0..(N_Comps - 1) :
          m_slices[fop.lev][cell][c]
              = InListOrder(fop.before[fop.lev][cell], Len(DstIdx), c)
    /\ \A other \in Levels \ {fop.lev} : m_slices[other] = fop.before[other]

(* C25 as stated: the pairs are processed in list order, and the result is
   that of the simultaneous assignment only when no destination component
   is the source component of a later pair *)
C25_SimultaneousOnlyWithoutOverlap ==
    PairsDone => AsInListOrder /\ (AsSimultaneous <=> ~Overlap)

\* every destination that a later pair reads was written by a pair that
\* copies the component onto itself
OverwrittenByItself ==
    /\ fop.op = "duplicate"
    /\ \A n, m \in 1..Len(DstIdx) :
          n < m /\ DstIdx[n] = SrcIdx[m] => SrcIdx[n] = DstIdx[n]

(* C25: duplicate and add process the pairs one after another in list
   order at each cell, a later pair reading what an earlier pair wrote to
   its source; when no destination component is the source component of a
   later pair the result is that of the simultaneous assignment, and when
   one is, the result is another one unless the earlier pair wrote what the
   component held already *)
C25_PairsInListOrder ==
    PairsDone =>
        /\ AsInListOrder
        /\ ~Overlap => AsSimultaneous
        /\ Overlap /\ AsSimultaneous => OverwrittenByItself

\* duplicate with pairs By <- Bx, Bx <- By on one slice: Bx holds its own
\* first value again, not the first By
C25_Witness ==
    /\ PairsDone /\ fop.op = "duplicate"
    /\ fop.islice_dst = WhichSlice.This /\ fop.islice_src = WhichSlice.This
    /\ fop.comps_dst = <<"By", "Bx">> /\ fop.comps_src = <<"Bx", "By">>
    /\ Overlap /\ ~AsSimultaneous
    /\ Contents(m_slices, fop.lev, WhichSlice.This, "Bx")
          = Contents(fop.before, fop.lev, WhichSlice.This, "Bx")
    /\ Contents(m_slices, fop.lev, WhichSlice.This, "By")
          = Contents(fop.before, fop.lev, WhichSlice.This, "Bx")

-----------------------------------------------------------------------------
(* Sequences of multi_emplace calls sharing the counter N_Comps *)

\* the names of the calls
EmplaceNames == Names \cup {"Bz"}

\* argument lists of one multi_emplace call: one to three names
EmplaceLists ==
    UNION {[1..k -> EmplaceNames] : k \in 1..3}

\* the slices the calls are made for
EmplaceRoles == {WhichSlice.This, WhichSlice.Previous}

InitEmplace == InitComps

(* Comps[role].multi_emplace(N_Comps, comps...) *)
MultiEmplace(role, comps) ==
    /\ ~aborted
    /\ N_Comps + Len(comps) <= MaxIndex
    /\ \E r \in {multi_emplace(Comps[role], N_Comps, comps)} :
           /\ Comps' = [Comps EXCEPT ![role] = r.map]
           /\ N_Comps' = r.n
    /\ emplaced' = emplaced \o
                      [i \in 1..Len(comps) |-> <<role, comps[i], N_Comps + i - 1>>]
    /\ UNCHANGED <<notc, looked, ErrorStream, aborted>>

NextEmplace == \E role \in EmplaceRoles, comps \in EmplaceLists : MultiEmplace(role, comps)

SpecEmplace == InitEmplace /\ [][NextEmplace]_vars

\* the arguments of the call made in this step: the log grows by them
CallArgs == SubSeq(emplaced', Len(emplaced) + 1, Len(emplaced'))

\* this step is a multi_emplace call
EmplaceStep == emplaced' # emplaced

\* argument i of the call names a component its role did not have and no
\* earlier argument named
NewName(args, i) ==
    /\ args[i][2] \notin DOMAIN Comps[args[i][1]]
    /\ \A j \in 1..(i - 1) : args[j][2] # args[i][2]

(* a call with k arguments gives a new name at place i the index n + i - 1,
   leaves the names registered before with their indices and increases
   the counter by k *)
EmplacedInOrder ==
    LET args == CallArgs
    IN  /\ N_Comps' = N_Comps + Len(args)
        /\ \A i \in 1..Len(args) :
              /\ args[i][2] \in DOMAIN Comps'[args[i][1]]
              /\ NewName(args, i) => Comps'[args[i][1]][args[i][2]] = N_Comps + i - 1
        /\ \A role \in Roles : \A name \in DOMAIN Comps[role] :
              /\ name \in DOMAIN Comps'[role]
              /\ Comps'[role][name] = Comps[role][name]

\* in every role distinct names have distinct indices, all in [0, N_Comps)
IndicesDistinct ==
    \A role \in Roles :
        /\ \A a, b \in DOMAIN Comps[role] : a # b => Comps[role][a] # Comps[role][b]
        /\ \A name \in DOMAIN Comps[role] :
              /\ 0 <= Comps[role][name] /\ Comps[role][name] < N_Comps
              /\ Comps[role][name] = FirstIndex(role, name)

(* C26: multi_emplace(n, c1..ck) registers the names in argument order
   with the indices n, ..., n+k-1 and increases n by k; a name registered
   before keeps its first index; after any sequence of calls sharing a
   counter that starts at 0 distinct names of a role have distinct indices
   and every index is in [0, n) *)
C26_EmplaceKeepsIndicesDistinct ==
    /\ [][EmplaceStep => EmplacedInOrder]_vars
    /\ []IndicesDistinct

\* Bx was named again before By was registered: By has the index 2, the
\* index 1 is given to no name
C26_Witness ==
    /\ N_Comps = 3
    /\ DOMAIN Comps[WhichSlice.This] = {"Bx", "By"}
    /\ Comps[WhichSlice.This]["Bx"] = 0
    /\ Comps[WhichSlice.This]["By"] = 2
    /\ Len(emplaced) = 3 /\ emplaced[2] = <<WhichSlice.This, "Bx", 1>>

=============================================================================
